---- MODULE Spec2Model ----
(***************************************************************************)
(* A model of async-wormhole: the switcheroo Generator (a stackful         *)
(* coroutine driven by arch::swap), its Yielder, and the AsyncWormhole     *)
(* future adapter built on top of it.                                      *)
(*                                                                         *)
(* Control is with the host side or with the coroutine side; every         *)
(* arch::swap hands it over together with a data pointer and the stack     *)
(* pointer at which the jumping side saved its context.                    *)
(***************************************************************************)
EXTENDS Integers, Sequences, FiniteSets, TLC

\* ------------------------------------------------------------- bounds
\* Host calls (resume / poll) issued in one behaviour.
MaxOps == 4
\* Futures the wormhole's user closure awaits with async_suspend.
MaxFuts == 2
\* Times one awaited future answers Pending before it is Ready.
MaxPend == 2

\* Capacities tried for the pool, 1 Mb stacks mapped in one behaviour and
\* threads calling into the pool.
MaxCapacity == 2
MaxStacks == 3
MaxPoolThreads == 2
\* PreAllocatedStacks are asked for with sizes up to 4 KB * 2^MaxExp, and
\* grow is called at most MaxGrows times on one stack.
MaxExp == 3
MaxGrows == 5
\* Stores of one closure of a pair, and polls of a pair.
MaxPairStores == 2
MaxPairPolls == 3

\* ---------------------------------------------------------- constants
\* The closure's input type is i32 (Yielder<i32, i32>).
I32Max == 2147483647
I32Min == (-2147483647) - 1

\* Inputs the host passes to resume.
Inputs == {-1, 0, 2, 127, I32Max}
\* Panic payloads: the unit payload Box::new(()) raised by the drop-unwind,
\* the payload of an arithmetic overflow panic, and a user payload.
UnitPayload == 0
OverflowPayload == 1
UserPayload == 2
\* Value the wormhole's user closure returns.
UserValue == 42
\* Worker threads that may run a poll, and the values a slot may hold.
Threads == {1, 2}
SlotValues == {0, 7}
\* Objects whose destructor the coroutine side is responsible for: the
\* closure with what it captured, the DropMarker local, the AsyncYielder
\* (with its waker) and the i-th future pinned inside async_suspend.
Obj(cls, idx) == [cls |-> cls, idx |-> idx]
Objects == {Obj("f", 0), Obj("marker", 0), Obj("ay", 0)}
             \cup {Obj("future", i) : i \in 1..MaxFuts}

\* ------------------------------------------------------------- values
\* What travels through the data register of a swap: a pointer to a value
\* on the sender's stack (tag says which), or the zero pointer.
Ptr(tag, opt, val) == [tag |-> tag, opt |-> opt, val |-> val]
NullPtr == Ptr("Null", "na", 0)
FPtr == Ptr("F", "na", 0)
InputPtr(v) == Ptr("Input", "na", v)
\* GeneratorOutput::Value / Finished / Panic
OutValue(opt, v) == Ptr("Value", opt, v)
OutFinished == Ptr("Finished", "na", 0)
OutPanic(p) == Ptr("Panic", "na", p)

\* What a host call hands back to its caller: Some / None / Panic for
\* resume, Ready / Pending / Panic for poll; opt is the inner Option of
\* the wormhole's output.
Ret(tag, opt, val) == [tag |-> tag, opt |-> opt, val |-> val]
NoRet == Ret("nothing", "na", 0)
\* A host call: its operation and argument, whether the generator was
\* finished when it was issued, and the switches into the coroutine before it.
Call(op, arg, fin, sw) == [op |-> op, arg |-> arg, fin |-> fin, sw |-> sw]
NoCall == Call("none", 0, FALSE, 0)
\* A store of the user closure to the preserved slot: before which await,
\* the value, and the thread it ran on.
Store(fut, val, t) == [fut |-> fut, val |-> val, thread |-> t]
NoStore == Store(0, 0, 0)

\* The two wormholes of a pair. One of them as AsyncWormhole::poll sees
\* it: where its closure is (none: not constructed), the value field of
\* its ThreadLocal, the value that field got in new_with_tls, the last
\* value and the number of stores of its closure, the wormhole its
\* closure is awaiting inside async_suspend (0: none), and how often it was
\* polled.
PairIds == {1, 2}
Wormhole(at, value, cons, wrote, stores, awaiting, polled) ==
  [at |-> at, value |-> value, cons |-> cons, wrote |-> wrote,
   stores |-> stores, awaiting |-> awaiting, polled |-> polled]
Unbuilt == Wormhole("none", 0, 0, 0, 0, 0, 0)
\* A load of a closure: who loaded what in which poll of its wormhole,
\* with its last store and the value its wormhole was constructed with.
Read(by, loaded, wrote, cons, poll) ==
  [by |-> by, loaded |-> loaded, wrote |-> wrote, cons |-> cons,
   poll |-> poll]
NoRead == Read(0, 0, 0, 0, 0)
\* Before anything is constructed every thread's slot holds a pointer of
\* that thread's own.
NoPair ==
  [slot |-> [t \in Threads |-> t], wh |-> [w \in PairIds |-> Unbuilt],
   run |-> [t \in Threads |-> <<>>], read |-> NoRead, polls |-> 0]

\* The 1 Mb stacks, named by the order in which they are mapped, and the
\* threads that use the pool.
StackIds == 1..MaxStacks
PoolThreads == 1..MaxPoolThreads
\* The last push of a recycle: the stack, whether the queue took it and
\* whether the queue was empty before.
Push(s, ok, was_empty) == [stack |-> s, ok |-> ok, was_empty |-> was_empty]
NoPush == Push(0, FALSE, FALSE)
\* The last pop of a with_tls: the push it followed (NoPush when another
\* pop came between), the stack popped (0: None), the stack the wormhole
\* was built on (0: not built) and the thread that ran it.
Pop(after, got, built, t) ==
  [after |-> after, got |-> got, built |-> built, thread |-> t]
NoPop == Pop(NoPush, 0, 0, 0)

\* A stack object: the platform family and the type it was built for, the
\* pointer it holds (self.0, or guard_top) and, for a PreAllocatedStack,
\* its top and bottom fields.
Stack(os, type, ptr, t, b) ==
  [os |-> os, type |-> type, ptr |-> ptr, top |-> t, bottom |-> b]
NoStack == Stack("none", "none", 0, 0, 0)
\* A run of the signal handler: the signal and the faulting address, the
\* slot's content before, whether the OS let mprotect succeed, and what
\* the handler did ("true", "false" or "panic").
Signal(signum, addr, before, os_ok, ret) ==
  [signum |-> signum, addr |-> addr, before |-> before, os_ok |-> os_ok,
   ret |-> ret]
NoSignal == Signal("none", 0, NoStack, FALSE, "none")
\* A call of new: the stack type, the total_size asked for (0 for the fixed
\* stacks, which take none), whether one of its system calls failed, and
\* whether it returned Ok.
Ask(type, total_size, failed, ok) ==
  [type |-> type, total_size |-> total_size, failed |-> failed, ok |-> ok]
NoAsk == Ask("none", 0, FALSE, FALSE)
\* A store the program makes through a pointer computed from bottom():
\* the address, how far it got ("planned", "retry" after a handled fault,
\* "done", or "killed" when the fault was not handled), how many faults it
\* raised and whether the OS refused an mprotect of the handler.
Access(addr, state, faults, refused) ==
  [addr |-> addr, state |-> state, faults |-> faults, refused |-> refused]
NoAccess == Access(0, "none", 0, FALSE)
\* A machine word: an address or plain number n, or the address of the
\* instruction at byte offset n of function fn.
Word(tag, fn, n) == [tag |-> tag, fn |-> fn, n |-> n]
Num(n) == Word("num", "", n)
Code(fn, off) == Word("code", fn, off)
Junk == Word("junk", "", 0)
\* 0xdeaddeaddead0cfa, the value init leaves where the caller's stack
\* pointer will be linked in.
Placeholder == Word("0xdeaddeaddead0cfa", "", 0)
RegNames == {"deallocation", "limit", "base", "rbx", "fp", "ip"}
NoRegs == [r \in RegNames |-> Junk]
NoMachine ==
  [arch |-> "none", pc |-> "none", stack |-> NoStack, image |-> <<>>,
   mem |-> <<>>, new_sp |-> 0, rsp |-> 0, host_sp |-> 0, arg |-> 0,
   regs |-> NoRegs, pops |-> 0, arg1 |-> Junk, arg2 |-> Junk, called |-> Junk]
\* An address range reserved from the OS by mmap / VirtualAlloc.
Region(base, size) == [base |-> base, size |-> size]

VARIABLES
  closure,     \* the closure given to new: [kind, futs, ending]
  build,       \* "debug" (overflow checks on) or "release" (wrapping)
  started,     \* Generator.started
  stack_ptr,   \* Generator.stack_ptr, 0 for None
  stack,       \* Generator.stack: "some", "none" (taken) or "freed"
  yielder_sp,  \* Yielder.stack_ptr
  tls_count,   \* TLS_COUNT of the wormhole (0 or 1)
  tls_value,   \* preserved_thread_locals[0].value
  slot,        \* the thread local slot of every thread
  thread,      \* the thread the host side currently runs on
  side,        \* "host" or "coro": the side control is with
  hpc,         \* host position
  cpc,         \* coroutine position
  data,        \* data register of the last swap
  reg_sp,      \* stack pointer register handed over by the last swap
  saved,       \* where each side's context is really saved (0: nowhere)
  next_sp,     \* fresh stack pointer values
  input,       \* the closure's local `input` / the AsyncYielder's waker
  fpc,         \* position inside the closure
  pend,        \* Pending answers the awaited future still gives
  payload,     \* payload of the panic unwinding the coroutine stack
  live,        \* objects alive on the coroutine stack
  drops,       \* how often each object's destructor ran
  ops,         \* host calls issued
  ret,         \* what the last host call returned
  call,        \* the host call in progress or last completed
  in_sent, in_recv, out_sent, out_recv,   \* values crossing the switch
  raised,      \* payloads raised on the host side
  switch_ins,  \* switches into the coroutine so far
  steps,       \* statements of the user closure executed
  fpolls,      \* polls of awaited futures: the waker each one used
  awaits,      \* one record per async_suspend call
  returns,     \* what every completed resume / poll returned, in order
  wrote,       \* the user closure's last store to the preserved slot
  loads,       \* the user closure's loads from the preserved slot
  ub           \* undefined behaviour was reached

\* The stack pool (OneMbAsyncPool), the 1 Mb stacks and the threads that
\* call into the pool.
VARIABLES
  capacity,    \* the capacity given to OneMbAsyncPool::new
  pool,        \* OneMbAsyncPool.pool: the queue of stacks, oldest first
  stacks,      \* where every 1 Mb stack is
  ppc,         \* position of every thread inside with_tls / recycle
  hand,        \* the stack a thread holds inside with_tls / recycle (0: none)
  recycled,    \* the last push of recycle, until the next pop
  acquired     \* what the last with_tls got from its pop

\* The stack allocators (switcheroo OneMbStack / EightMbStack, stackpp
\* EightMbStack / PreAllocatedStack) on one thread.
VARIABLES
  platform,       \* "linux", "macos" or "windows"
  owned,          \* the stack the caller holds (NoStack: none)
  CURRENT_STACK,  \* the thread local slot read by the signal handler
  reserved,       \* the address ranges reserved from the OS
  asked,          \* the last call of new: type, total_size, Ok or Err
  grown,          \* outcome of every grow call on the stack since new
  handled,        \* the run of the signal handler that has just returned
  access          \* a store through a raw pointer into the stack's range

\* The machine during arch::init and the first switch into a new stack.
VARIABLES
  machine         \* registers, stack image and position of the first switch

\* Two AsyncWormholes that preserve the same thread local key.
VARIABLES
  pair            \* the key's slots, both wormholes and who polls whom

wormholeVars == <<closure, build, started, stack_ptr, stack, yielder_sp, tls_count,
          tls_value, slot, thread, side, hpc, cpc, data, reg_sp, saved,
          next_sp, input, fpc, pend, payload, live, drops, ops, ret, call, in_sent,
          in_recv, out_sent, out_recv, raised, switch_ins, steps, fpolls,
          awaits, returns, wrote, loads, ub>>
poolVars == <<capacity, pool, stacks, ppc, hand, recycled, acquired>>
stackVars == <<platform, owned, CURRENT_STACK, reserved, asked, grown, handled,
               access>>
\* What the generator and the wormhole never touch.
elsewhere == <<poolVars, stackVars, machine, pair>>
vars == <<wormholeVars, elsewhere>>

\* Groups of variables, for the frame conditions.
params == <<closure, build, tls_count>>
genVars == <<started, stack_ptr, stack>>
tlsVars == <<tls_value, slot, thread>>
swapVars == <<side, data, reg_sp, saved, next_sp, switch_ins>>
regVars == <<swapVars, ub>>
coroVars == <<yielder_sp, cpc, input, fpc, pend, payload>>
objVars == <<live, drops>>
hostVars == <<hpc, ops, ret, call>>
tlsUse == <<wrote, loads>>
histVars == <<in_sent, in_recv, out_sent, out_recv, raised, steps, fpolls,
              awaits, returns>>

\* ----------------------------------------------------------- closures
\* switcheroo/tests/switch_test.rs and the crate example: add one in a loop
\* until the input is 0.
AddOne == [kind |-> "add_one", futs |-> <<>>, ending |-> "return"]
\* switcheroo/examples/generator_with_drop.rs: a DropMarker local and
\* four suspends.
WithDrop == [kind |-> "with_drop", futs |-> <<>>, ending |-> "return"]
\* The user closures given to AsyncWormhole::new: await some futures, each
\* Pending a number of times, then return a value or panic.
FutSeqs == UNION {[1..n -> 0..MaxPend] : n \in 0..MaxFuts}
Wormholes == [kind : {"wormhole"}, futs : FutSeqs, ending : {"return", "panic"}]

IsWormhole == closure.kind = "wormhole"
NFuts == Len(closure.futs)
PendOf(i) == IF i \in 1..NFuts THEN closure.futs[i] ELSE 0

\* ------------------------------------------------------- stack layout
\* page_size() asserts the OS page to be 4 KB.
PageSize == 4096
\* size_of::<usize>() on the 64 bit targets of switcheroo::arch.
SizeOfUsize == 8
ONE_MB == 1 * 1024 * 1024 + 4096
EIGHT_MB == 8 * 1024 * 1024
EXCEPTION_ZONE == 4 * 4096

RECURSIVE Pow2(_)
Pow2(x) == IF x = 0 THEN 1 ELSE 2 * Pow2(x - 1)

\* ptr.add(count) / ptr.sub(count) on a *mut T with size_of::<T>() = size.
add(ptr, count, size) == ptr + count * size
sub(ptr, count, size) == ptr - count * size

Family(pf) == IF pf = "windows" THEN "windows" ELSE "unix"
Platforms == {"linux", "macos", "windows"}
OneMb == "switcheroo::OneMbStack"
EightMb == "switcheroo::EightMbStack"
PpEightMb == "stackpp::EightMbStack"
PreAllocated == "stackpp::PreAllocatedStack"
FixedTypes == {OneMb, EightMb, PpEightMb}

\* total_size values given to PreAllocatedStack::new (any usize is taken):
\* the documented 4 KB * 2^x, and next to them zero, a page multiple that
\* is no power of two and a size that is no page multiple.
DocumentedSizes == {PageSize * Pow2(x) : x \in 0..MaxExp}
Sizes == DocumentedSizes \cup {0, 3 * PageSize, PageSize + SizeOfUsize}
\* Page aligned addresses the OS hands out.
Bases == {16 * PageSize, 4096 * PageSize}

\* EIGHT_MB / ONE_MB of the stack's own file.
FixedSize(type) == IF type = OneMb THEN ONE_MB ELSE EIGHT_MB

bottom(s) ==
  IF s.type = PreAllocated THEN s.bottom
  ELSE IF s.os = "unix"
  THEN add(s.ptr, FixedSize(s.type) \div SizeOfUsize, SizeOfUsize)
  ELSE add(s.ptr, (FixedSize(s.type) + EXCEPTION_ZONE) \div SizeOfUsize,
           SizeOfUsize)

top(s) ==
  IF s.type = PreAllocated THEN s.top
  ELSE IF s.os = "unix" THEN s.ptr
  ELSE IF s.type = PpEightMb THEN add(s.ptr, EXCEPTION_ZONE, SizeOfUsize)
  ELSE add(s.ptr, EXCEPTION_ZONE \div SizeOfUsize, SizeOfUsize)

guard_top(s) == s.ptr

\* deallocation() of the fixed stacks: panics on unix, self.0 on Windows.
deallocation(s) ==
  IF s.os = "unix" THEN [panics |-> TRUE, ptr |-> 0]
  ELSE [panics |-> FALSE, ptr |-> s.ptr]

\* Drop that releases from the top of the usable region.
DropBaseFromTop(s) == top(s)

\* The range Drop gives back: munmap(ptr, len) on unix, VirtualFree(ptr, 0,
\* MEM_RELEASE), which releases the whole reservation made at ptr, on Windows.
DropBase(s) ==
  IF s.type = PreAllocated THEN s.ptr
  ELSE IF s.os = "unix" /\ s.type # OneMb THEN top(s)
  ELSE s.ptr
DropRegions(s) ==
  IF s.os = "unix"
  THEN {Region(DropBase(s),
               IF s.type = PreAllocated THEN s.bottom - s.ptr
               ELSE FixedSize(s.type))}
  ELSE {r \in reserved : r.base = DropBase(s)}

stack_pointer_inside_guard(s, sp) == s.ptr <= sp /\ sp < s.top

\* grow that moves top before it knows whether mprotect succeeded.
growMovesTopFirst(s, os_ok) ==
  LET usable_size == s.bottom - s.top
      total_size == s.bottom - s.ptr
  IN IF 2 * usable_size > total_size THEN [ok |-> FALSE, stack |-> s]
     ELSE [ok |-> os_ok,
           stack |-> [s EXCEPT !.top = sub(s.top, usable_size, 1)]]

\* grow on a stack whose mprotect call the OS lets succeed or not.
grow(s, os_ok) ==
  LET usable_size == s.bottom - s.top
      total_size == s.bottom - s.ptr
  IN IF 2 * usable_size > total_size THEN [ok |-> FALSE, stack |-> s]
     ELSE IF os_ok
     THEN [ok |-> TRUE, stack |-> [s EXCEPT !.top = sub(s.top, usable_size, 1)]]
     ELSE [ok |-> FALSE, stack |-> s]

Signals == {"SIGSEGV", "SIGBUS", "SIGILL"}
expected_guard_page_signal(pf) == IF pf = "macos" THEN "SIGBUS" ELSE "SIGSEGV"

\* signal_handler on the slot content cur: what it returns and what it
\* leaves in the slot.
signal_handler(pf, signum, si_addr, cur, os_ok) ==
  IF Family(pf) = "windows" THEN [ret |-> "false", slot |-> cur]
  ELSE IF signum # expected_guard_page_signal(pf)
  THEN [ret |-> "false", slot |-> cur]
  ELSE IF cur = NoStack THEN [ret |-> "panic", slot |-> NoStack]
  ELSE IF stack_pointer_inside_guard(cur, si_addr) /\ grow(cur, os_ok).ok
  THEN [ret |-> "true", slot |-> grow(cur, os_ok).stack]
  ELSE [ret |-> "false", slot |-> cur]

\* Addresses a fault may report: around the ends of the guard range and of
\* the usable range of the stack in the slot.
FaultAddrs(cur) ==
  IF cur = NoStack THEN {0}
  ELSE {cur.ptr - 1, cur.ptr, cur.top - 1, cur.top}

\* The system calls new makes: mmap on unix, and there mprotect after it
\* for a PreAllocatedStack; on Windows the reserving VirtualAlloc, a
\* committing VirtualAlloc and a VirtualProtect or second commit.
OsCalls(os, type) ==
  IF os = "windows" THEN 3 ELSE IF type = PreAllocated THEN 2 ELSE 1

\* new of the fixed stacks that looks at the result of its first system
\* call only.
FixedNewOkUnchecked(os, calls) == calls >= 1

\* Whether new of a fixed stack returns Ok when the OS lets the first
\* `calls` of its system calls succeed: every null or MAP_FAILED result
\* returns Err(Error::last_os_error()).
FixedNewOk(os, calls) ==
  IF calls < 1 THEN FALSE
  ELSE IF os = "unix" THEN TRUE
  ELSE IF calls < 2 THEN FALSE
  ELSE IF calls < 3 THEN FALSE
  ELSE TRUE

\* The same for PreAllocatedStack::new: alloc(total_size)?, then
\* extend_usable(bottom, page_size())?, whose mprotect also fails on an
\* address that is not page aligned.
PreNewOk(os, calls, aligned) ==
  IF calls < 1 THEN FALSE
  ELSE IF os = "unix" THEN calls >= 2 /\ aligned
  ELSE IF calls < 2 THEN FALSE
  ELSE IF calls < 3 THEN FALSE
  ELSE TRUE

\* ------------------------------------------------- arch::init image
Archs == {"unix_x64", "unix_aarch64", "windows_x64"}
ArchFamily(arch) == IF arch = "windows_x64" THEN "windows" ELSE "unix"

\* The words init can write: the eight below bottom.
ImageWords == 8
Slots(b) == {b - SizeOfUsize * i : i \in 1..ImageWords}

\* push inside init: sp = sp.offset(-1); *sp = val.
push(st, val) ==
  [sp |-> st.sp - SizeOfUsize,
   mem |-> [st.mem EXCEPT ![st.sp - SizeOfUsize] = val]]

\* The name of the trampoline whose call instruction init points at, and
\* the byte offset of that instruction.
Trampoline(arch) == IF arch = "windows_x64" THEN "trampoline" ELSE "trampoline_2"
CallOffset(arch) ==
  IF arch = "unix_x64" THEN 1 ELSE 4

\* arch::init(stack, f): the words it pushes, in its order, and the stack
\* pointer it returns.
init(arch, s) ==
  LET b == bottom(s)
      st0 == [sp |-> b, mem |-> [a \in Slots(b) |-> Junk]]
  IN IF arch = "windows_x64"
     THEN LET st1 == push(st0, Code("generator_wrapper", 0))
              st2 == push(st1, Placeholder)
              frame == st2.sp
              st3 == push(st2, Code("trampoline", 4))
              st4 == push(st3, Num(frame))
              st5 == push(st4, Num(0))
              st6 == push(st5, Num(bottom(s)))
              st7 == push(st6, Num(top(s)))
          IN push(st7, Num(deallocation(s).ptr))
     ELSE LET st1 == push(st0, Num(0))
              st2 == push(st1, Code("generator_wrapper", 0))
              st3 == push(st2, Code("trampoline_1",
                                    IF arch = "unix_x64" THEN 2 ELSE 4))
              st4 == push(st3, Placeholder)
              frame == st4.sp
              st5 == push(st4, Code("trampoline_2",
                                    IF arch = "unix_x64" THEN 1 ELSE 4))
          IN push(st5, Num(frame))

\* swap_and_link_stacks stores the stack pointer at [sp - 16] like the
\* Windows code on every platform.
LinkOffsetSixteen(arch) == 16

\* "mov [rcx - 32], rsp" / "str x1, [x3, #-32]" / "mov [rdi - 16], rsp":
\* the distance below the sp argument at which the caller's stack pointer
\* is stored.
LinkOffset(arch) == IF arch = "windows_x64" THEN 16 ELSE 32

\* Bytes swap_and_link_stacks pushes on the caller's stack before it
\* stores the stack pointer: the continuation and the frame pointer, on
\* Windows also rbx and three words of the thread information block.
SavedBytes(arch) ==
  IF arch = "windows_x64" THEN 6 * SizeOfUsize ELSE 2 * SizeOfUsize

\* The registers the switch pops from the new stack, in order.
PopOrder(arch) ==
  IF arch = "windows_x64"
  THEN <<"deallocation", "limit", "base", "rbx", "fp", "ip">>
  ELSE <<"fp", "ip">>

\* The instruction at a code address: the nops in front of the call of
\* the trampoline, and its indirect call through [sp + disp].
Instr(arch, w) ==
  IF w.tag # "code" \/ w.fn # Trampoline(arch)
  THEN [op |-> "invalid", len |-> 0, disp |-> 0]
  ELSE IF arch = "unix_x64"
  THEN IF w.n = 0 THEN [op |-> "nop", len |-> 1, disp |-> 0]
       ELSE IF w.n = 1 THEN [op |-> "call", len |-> 0, disp |-> 16]
       ELSE [op |-> "invalid", len |-> 0, disp |-> 0]
  ELSE IF arch = "unix_aarch64"
  THEN IF w.n = 0 THEN [op |-> "nop", len |-> 4, disp |-> 0]
       ELSE IF w.n = 4 THEN [op |-> "call", len |-> 0, disp |-> 16]
       ELSE [op |-> "invalid", len |-> 0, disp |-> 0]
  ELSE IF w.n \in 0..3 THEN [op |-> "nop", len |-> 1, disp |-> 0]
       ELSE IF w.n = 4 THEN [op |-> "call", len |-> 0, disp |-> 8]
       ELSE [op |-> "invalid", len |-> 0, disp |-> 0]

\* --------------------------------------------------------------- Init
\* Before Generator::new: nothing is on the coroutine stack.
NothingBuilt ==
  /\ started = FALSE /\ stack_ptr = 0 /\ stack = "some"
  /\ yielder_sp = 0 /\ tls_value = 0 /\ thread = 1
  /\ side = "host" /\ hpc = "fresh" /\ cpc = "none"
  /\ data = NullPtr /\ reg_sp = 0 /\ saved = [host |-> 0, coro |-> 0]
  /\ next_sp = 1
  /\ input = 0 /\ fpc = 0 /\ pend = 0 /\ payload = 0
  /\ live = {} /\ drops = [o \in Objects |-> 0]
  /\ ops = 0 /\ ret = NoRet /\ call = NoCall
  /\ in_sent = <<>> /\ in_recv = <<>> /\ out_sent = <<>> /\ out_recv = <<>>
  /\ raised = <<>> /\ switch_ins = 0 /\ steps = 0 /\ fpolls = <<>>
  /\ awaits = <<>> /\ returns = <<>>
  /\ wrote = NoStore /\ loads = <<>>
  /\ ub = FALSE

\* No pool was created.
NoPool ==
  /\ capacity = 0 /\ pool = <<>>
  /\ stacks = [s \in StackIds |-> "unmapped"]
  /\ ppc = [t \in PoolThreads |-> "idle"] /\ hand = [t \in PoolThreads |-> 0]
  /\ recycled = NoPush /\ acquired = NoPop

\* No stack was created through the allocators and no signal was raised;
\* the thread local slot starts as Cell::new(None).
NoStackYet ==
  /\ owned = NoStack /\ CURRENT_STACK = NoStack /\ reserved = {}
  /\ asked = NoAsk /\ grown = <<>> /\ handled = NoSignal
  /\ access = NoAccess
  /\ machine = NoMachine
  /\ pair = NoPair

\* A closure is about to be given to Generator::new or AsyncWormhole::new.
Init ==
  /\ \/ closure \in {AddOne, WithDrop} /\ build \in {"debug", "release"}
        /\ tls_count = 0 /\ slot = [t \in Threads |-> 0]
     \/ closure \in Wormholes /\ build = "debug"
        /\ tls_count \in {0, 1} /\ slot \in [Threads -> SlotValues]
  /\ NothingBuilt
  /\ NoPool
  /\ platform = "linux" /\ NoStackYet

\* --------------------------------------------------------------- arch
Other(s) == IF s = "host" THEN "coro" ELSE "host"

\* swap that leaves the data register as it was.
swapStaleData(from, arg, new_sp) ==
  /\ data' = data
  /\ reg_sp' = next_sp
  /\ next_sp' = next_sp + 1
  /\ saved' = [saved EXCEPT ![from] = next_sp, ![Other(from)] = 0]
  /\ side' = Other(from)
  /\ switch_ins' = switch_ins + (IF from = "host" THEN 1 ELSE 0)
  /\ ub' = (ub \/ new_sp = 0 \/ new_sp # saved[Other(from)])

\* arch::swap(arg, new_sp) executed by side `from`: the context of `from`
\* is saved at a fresh stack pointer, which the other side receives in the
\* second register together with arg; control jumps to new_sp. Jumping to
\* an address at which the other side is not saved is undefined.
swap(from, arg, new_sp) ==
  /\ data' = arg
  /\ reg_sp' = next_sp
  /\ next_sp' = next_sp + 1
  /\ saved' = [saved EXCEPT ![from] = next_sp, ![Other(from)] = 0]
  /\ side' = Other(from)
  /\ switch_ins' = switch_ins + (IF from = "host" THEN 1 ELSE 0)
  /\ ub' = (ub \/ new_sp = 0 \/ new_sp # saved[Other(from)])

\* ---------------------------------------------------- Generator::new
\* arch::init prepares the stack at a first stack pointer; f is wrapped in
\* ManuallyDrop and swap_and_link_stacks jumps into generator_wrapper.
GeneratorNew(t) ==
  /\ side = "host" /\ hpc = "fresh"
  /\ thread' = t
  /\ data' = FPtr
  /\ reg_sp' = next_sp + 1
  /\ next_sp' = next_sp + 2
  /\ saved' = [host |-> next_sp + 1, coro |-> 0]
  /\ side' = "coro"
  /\ switch_ins' = switch_ins + 1
  /\ cpc' = "init"
  /\ hpc' = "new"
  /\ call' = Call("new", 0, FALSE, switch_ins)
  /\ UNCHANGED <<elsewhere, params, tlsUse, genVars, tls_value, slot, ub, yielder_sp, input, fpc,
                 pend, payload, objVars, ops, ret, histVars>>

\* generator_wrapper without its first swap: f starts during new.
WrapperRunsOn ==
  /\ cpc' = "closure"
  /\ UNCHANGED regVars

\* generator_wrapper up to its first arch::swap: f is read onto the new
\* stack, then control goes back before any statement of f ran.
WrapperPark ==
  /\ swap("coro", NullPtr, reg_sp)
  /\ cpc' = "parked"

WrapperEntry ==
  /\ side = "coro" /\ cpc = "init"
  /\ live' = live \cup {Obj("f", 0)}
  /\ WrapperPark
  /\ UNCHANGED <<elsewhere, params, tlsUse, genVars, tlsVars, yielder_sp, input, fpc, pend,
                 payload, drops, hostVars, histVars>>

\* The end of Generator::new, and of AsyncWormhole::new_with_tls, which
\* remembers the constructing thread's slot.
GeneratorNewReturn ==
  /\ side = "host" /\ hpc = "new"
  /\ started' = FALSE
  /\ stack' = "some"
  /\ stack_ptr' = reg_sp
  /\ tls_value' = IF tls_count = 1 THEN slot[thread] ELSE tls_value
  /\ hpc' = "idle"
  /\ ret' = Ret("new", "na", 0)
  /\ UNCHANGED <<elsewhere, params, tlsUse, slot, thread, regVars, coroVars, objVars, ops, call,
                 histVars>>

\* Observers.
finished == stack_ptr = 0
constructed == hpc \notin {"fresh", "new"}

\* ------------------------------------------------- Generator::resume
RetNone == Ret("None", "na", 0)
RetPending == Ret("Pending", "na", 0)

\* ResumeMatch that keeps the stack pointer when the coroutine ended.
ResumeMatchKeepsSp(out, sp) ==
  CASE out.tag = "Value" ->
         [stack_ptr |-> sp, ret |-> Ret("Some", out.opt, out.val)]
    [] out.tag = "Finished" -> [stack_ptr |-> sp, ret |-> RetNone]
    [] out.tag = "Panic" ->
         [stack_ptr |-> sp, ret |-> Ret("Panic", "na", out.val)]
    [] OTHER -> [stack_ptr |-> sp, ret |-> Ret("Undefined", "na", 0)]

\* ResumeMatch that drops the panic payload instead of raising it.
ResumeMatchSwallows(out, sp) ==
  CASE out.tag = "Value" ->
         [stack_ptr |-> sp, ret |-> Ret("Some", out.opt, out.val)]
    [] out.tag \in {"Finished", "Panic"} -> [stack_ptr |-> 0, ret |-> RetNone]
    [] OTHER -> [stack_ptr |-> sp, ret |-> Ret("Undefined", "na", 0)]

\* The match on the output read after the switch came back: the new
\* stack_ptr and what resume returns (or raises).
ResumeMatch(out, sp) ==
  CASE out.tag = "Value" ->
         [stack_ptr |-> sp, ret |-> Ret("Some", out.opt, out.val)]
    [] out.tag = "Finished" -> [stack_ptr |-> 0, ret |-> RetNone]
    [] out.tag = "Panic" ->
         [stack_ptr |-> 0, ret |-> Ret("Panic", "na", out.val)]
    [] OTHER -> [stack_ptr |-> sp, ret |-> Ret("Undefined", "na", 0)]

\* PollMatch without the Some(None) arm.
PollMatchReadyNone(r) ==
  IF r.tag = "None" THEN RetPending
  ELSE IF r.tag = "Some" THEN Ret("Ready", r.opt, r.val) ELSE r

\* PollMatch that panics when the generator has nothing more to give.
PollMatchPanicsWhenDone(r) ==
  IF r.tag = "None" THEN Ret("Panic", "na", UserPayload)
  ELSE IF r.tag = "Some" /\ r.opt = "none" THEN RetPending
  ELSE IF r.tag = "Some" THEN Ret("Ready", r.opt, r.val) ELSE r

\* The match in AsyncWormhole::poll on what resume returned.
PollMatch(r) ==
  IF r.tag = "None" \/ (r.tag = "Some" /\ r.opt = "none")
  THEN RetPending
  ELSE IF r.tag = "Some" THEN Ret("Ready", r.opt, r.val) ELSE r

\* The second loop of poll leaving the remembered value as it is.
TlsSaveKeeps(sl, t) == tls_value

\* The loops of poll over preserved_thread_locals.
TlsRestore(t) == IF tls_count = 1 THEN [slot EXCEPT ![t] = tls_value] ELSE slot
TlsSave(sl, t) == IF tls_count = 1 THEN sl[t] ELSE tls_value

\* ResumeSwitch that switches in without marking the generator started.
ResumeSwitchUnmarked(v) ==
  /\ swap("host", InputPtr(v), stack_ptr)
  /\ hpc' = "resume"
  /\ in_sent' = Append(in_sent, v)
  /\ UNCHANGED <<started, stack_ptr, stack, ret>>

\* resume on a generator that is not finished: mark it started and switch
\* in with a pointer to the input.
ResumeSwitch(v) ==
  /\ started' = TRUE
  /\ swap("host", InputPtr(v), stack_ptr)
  /\ hpc' = "resume"
  /\ in_sent' = Append(in_sent, v)
  /\ UNCHANGED <<stack_ptr, stack, ret>>

\* Generator::resume(n) called by the host on a plain generator.
Resume(n) ==
  /\ side = "host" /\ hpc = "idle" /\ ~IsWormhole /\ ops < MaxOps
  /\ ops' = ops + 1
  /\ call' = Call("resume", n, finished, switch_ins)
  /\ IF stack_ptr = 0
     THEN /\ ret' = RetNone
          /\ returns' = Append(returns, ret')
          /\ UNCHANGED <<genVars, regVars, hpc, in_sent>>
     ELSE /\ ResumeSwitch(n)
          /\ UNCHANGED returns
  /\ UNCHANGED <<elsewhere, params, tlsUse, tlsVars, coroVars, objVars, in_recv, out_sent,
                 out_recv, raised, steps, fpolls, awaits>>

\* AsyncWormhole::poll on thread t, with the waker of this poll (the polls
\* are numbered): restore the slots, then resume with the waker.
Poll(t) ==
  /\ side = "host" /\ hpc = "idle" /\ IsWormhole /\ ops < MaxOps
  /\ ops' = ops + 1
  /\ call' = Call("poll", ops + 1, finished, switch_ins)
  /\ thread' = t
  /\ slot' = TlsRestore(t)
  /\ IF stack_ptr = 0
     THEN /\ ret' = PollMatch(RetNone)
          /\ returns' = Append(returns, ret')
          /\ tls_value' = TlsSave(slot', t)
          /\ UNCHANGED <<genVars, regVars, hpc, in_sent>>
     ELSE /\ ResumeSwitch(ops + 1)
          /\ UNCHANGED <<tls_value, returns>>
  /\ UNCHANGED <<elsewhere, params, tlsUse, coroVars, objVars, in_recv, out_sent, out_recv,
                 raised, steps, fpolls, awaits>>

\* A poll that, instead of returning Pending, resumes the generator again
\* with the same waker until the closure has a value.
ResumeReturnDrives ==
  /\ side = "host" /\ hpc = "resume"
  /\ LET m == ResumeMatch(data, reg_sp)
         r == IF call.op = "poll" THEN PollMatch(m.ret) ELSE m.ret
     IN IF call.op = "poll" /\ r.tag = "Pending" /\ m.stack_ptr # 0
        THEN /\ stack_ptr' = m.stack_ptr
             /\ swap("host", InputPtr(call.arg), m.stack_ptr)
             /\ in_sent' = Append(in_sent, call.arg)
             /\ UNCHANGED <<ret, returns, raised, tls_value, hpc>>
        ELSE /\ stack_ptr' = m.stack_ptr
             /\ ret' = r
             /\ returns' = Append(returns, r)
             /\ raised' = IF r.tag = "Panic" THEN Append(raised, r.val)
                          ELSE raised
             /\ tls_value' = tls_value
             /\ ub' = (ub \/ r.tag = "Undefined")
             /\ hpc' = "idle"
             /\ UNCHANGED <<swapVars, in_sent>>
  /\ out_recv' = Append(out_recv, data)
  /\ UNCHANGED <<elsewhere, params, tlsUse, started, stack, slot, thread,
                 coroVars, objVars, ops, call, in_recv, out_sent, steps,
                 fpolls, awaits>>

\* The switch came back into resume: read the output, update stack_ptr and
\* return or re-raise; inside poll, map the result and save the slots when
\* the poll is Pending.
ResumeReturn ==
  /\ side = "host" /\ hpc = "resume"
  /\ LET m == ResumeMatch(data, reg_sp)
         r == IF call.op = "poll" THEN PollMatch(m.ret) ELSE m.ret
     IN /\ stack_ptr' = m.stack_ptr
        /\ ret' = r
        /\ returns' = Append(returns, r)
        /\ raised' = IF r.tag = "Panic" THEN Append(raised, r.val) ELSE raised
        /\ tls_value' = IF call.op = "poll" /\ r.tag = "Pending"
                        THEN TlsSave(slot, thread) ELSE tls_value
        /\ ub' = (ub \/ r.tag = "Undefined")
  /\ out_recv' = Append(out_recv, data)
  /\ hpc' = "idle"
  /\ UNCHANGED <<elsewhere, params, tlsUse, started, stack, slot, thread, swapVars, coroVars,
                 objVars, ops, call, in_sent,
                 in_recv, out_sent, steps, fpolls, awaits>>

\* ------------------------------------- Drop for Generator, stack()
\* What happens to the Stack field when the Generator's fields are dropped
\* after Drop::drop: a stack still held is released, one taken by stack()
\* is with the caller.
StackAfterDrop(st) ==
  IF st = "some" THEN "freed" ELSE IF st = "taken" THEN "returned" ELSE st

\* Drop that never switches in: the stack goes away as it is.
DropEnterNoUnwind(op, t) ==
  /\ side = "host" /\ hpc = "idle"
  /\ IsWormhole \/ t = thread
  /\ thread' = t
  /\ call' = Call(op, 0, finished, switch_ins)
  /\ hpc' = "dropped"
  /\ stack' = StackAfterDrop(IF op = "stack" THEN "taken" ELSE stack)
  /\ ret' = Ret(op, "na", 0)
  /\ UNCHANGED <<elsewhere, params, tlsUse, started, stack_ptr, tls_value, slot, regVars,
                 coroVars, objVars, ops, histVars>>

\* Drop that switches in whenever the generator was started, finished or
\* not.
DropEnterAlwaysUnwinds(op, t) ==
  /\ side = "host" /\ hpc = "idle"
  /\ IsWormhole \/ t = thread
  /\ thread' = t
  /\ call' = Call(op, 0, finished, switch_ins)
  /\ LET st == IF op = "stack" THEN "taken" ELSE stack
     IN IF started
        THEN /\ swap("host", NullPtr, stack_ptr)
             /\ hpc' = "drop"
             /\ stack' = st
             /\ UNCHANGED ret
        ELSE /\ hpc' = "dropped"
             /\ stack' = StackAfterDrop(st)
             /\ ret' = Ret(op, "na", 0)
                /\ UNCHANGED regVars
  /\ UNCHANGED <<elsewhere, params, tlsUse, started, stack_ptr, tls_value, slot, coroVars,
                 objVars, ops, histVars>>

\* The generator (or the wormhole owning it) is dropped on thread t, or
\* consumed by stack(), which takes the stack first. A started and not
\* finished generator switches in with the zero data pointer.
DropEnter(op, t) ==
  /\ side = "host" /\ hpc = "idle"
  /\ IsWormhole \/ t = thread
  /\ thread' = t
  /\ call' = Call(op, 0, finished, switch_ins)
  /\ LET st == IF op = "stack" THEN "taken" ELSE stack
     IN IF started /\ ~finished
        THEN /\ swap("host", NullPtr, stack_ptr)
             /\ hpc' = "drop"
             /\ stack' = st
             /\ UNCHANGED ret
        ELSE /\ hpc' = "dropped"
             /\ stack' = StackAfterDrop(st)
             /\ ret' = Ret(op, "na", 0)
                /\ UNCHANGED regVars
  /\ UNCHANGED <<elsewhere, params, tlsUse, started, stack_ptr, tls_value, slot, coroVars,
                 objVars, ops, histVars>>

\* Drop that re-raises a panic it receives, as resume does.
DropReturnRaises ==
  /\ side = "host" /\ hpc = "drop"
  /\ out_recv' = Append(out_recv, data)
  /\ raised' = IF data.tag = "Panic" THEN Append(raised, data.val) ELSE raised
  /\ hpc' = "dropped"
  /\ stack' = StackAfterDrop(stack)
  /\ ret' = Ret(call.op, "na", 0)
  /\ UNCHANGED <<elsewhere, params, tlsUse, started, stack_ptr, tlsVars, regVars, coroVars,
                 objVars, ops, call, in_sent, in_recv, out_sent,
                 steps, fpolls,
                 awaits, returns>>

\* The switch came back into Drop::drop: the output is read and dropped.
DropReturn ==
  /\ side = "host" /\ hpc = "drop"
  /\ out_recv' = Append(out_recv, data)
  /\ hpc' = "dropped"
  /\ stack' = StackAfterDrop(stack)
  /\ ret' = Ret(call.op, "na", 0)
  /\ UNCHANGED <<elsewhere, params, tlsUse, started, stack_ptr, tlsVars, regVars, coroVars,
                 objVars, ops, call, in_sent, in_recv, out_sent, raised,
                 steps, fpolls,
                 awaits, returns>>

\* ------------------------------------------------- the coroutine side
\* Destructors of the objects in S run.
DropAll(S) ==
  /\ drops' = [o \in Objects |-> drops[o] + (IF o \in S THEN 1 ELSE 0)]
  /\ live' = live \ S

\* suspend_ that hands out its value without leaving the coroutine.
suspend_NoSwitch(out) ==
  /\ UNCHANGED <<data, reg_sp, next_sp, saved, side, switch_ins, ub>>
  /\ out_sent' = Append(out_sent, out)
  /\ cpc' = IF out.tag = "Value" THEN "suspended" ELSE "final"

\* Yielder::suspend_(out): switch out with a pointer to out, to the host
\* stack pointer the yielder holds. After Finished or Panic the wrapper
\* is at its last statement.
suspend_(out) ==
  /\ swap("coro", out, yielder_sp)
  /\ out_sent' = Append(out_sent, out)
  /\ cpc' = IF out.tag = "Value" THEN "suspended" ELSE "final"

\* A panic starts unwinding the coroutine stack.
Panics(p) ==
  /\ payload' = p
  /\ cpc' = "unwinding"

\* generator_wrapper continues after its first swap (the first resume):
\* the input is read, the Yielder is built on the received stack pointer
\* and f is called inside catch_unwind. For the wormhole, the generator's
\* closure first builds the AsyncYielder around the waker.
WrapperStart ==
  /\ side = "coro" /\ cpc = "parked"
  /\ input' = data.val
  /\ ub' = (ub \/ data.tag # "Input")
  /\ in_recv' = Append(in_recv, data.val)
  /\ yielder_sp' = reg_sp
  /\ cpc' = "closure"
  /\ fpc' = IF IsWormhole THEN 1 ELSE 0
  /\ pend' = PendOf(1)
  /\ live' = IF IsWormhole THEN live \cup {Obj("ay", 0)} ELSE live
  /\ UNCHANGED <<elsewhere, params, tlsUse, genVars, tlsVars, swapVars,
                 payload, drops, hostVars, in_sent, out_sent, out_recv,
                 raised, steps, fpolls,
                 awaits, returns>>

\* suspend_ that records the host stack pointer only after the check for
\* the zero data pointer.
SuspendReturnLateSp ==
  /\ side = "coro" /\ cpc \in {"suspended", "final"}
  /\ IF cpc = "final"
     THEN /\ ub' = TRUE
          /\ yielder_sp' = reg_sp
          /\ UNCHANGED <<cpc, payload, input, in_recv>>
     ELSE IF data = NullPtr
     THEN /\ Panics(UnitPayload)
          /\ UNCHANGED <<ub, input, in_recv, yielder_sp>>
     ELSE /\ input' = data.val
          /\ yielder_sp' = reg_sp
          /\ in_recv' = Append(in_recv, data.val)
          /\ ub' = (ub \/ data.tag # "Input")
          /\ cpc' = "closure"
          /\ UNCHANGED payload
  /\ UNCHANGED <<elsewhere, params, tlsUse, genVars, tlsVars, swapVars,
                 fpc, pend, objVars, hostVars, in_sent, out_sent, out_recv,
                 raised, steps, fpolls,
                 awaits, returns>>

\* suspend_ whose result the caller throws away: the coroutine goes on
\* with the input (the waker) it had.
SuspendReturnKeepsInput ==
  /\ side = "coro" /\ cpc \in {"suspended", "final"}
  /\ yielder_sp' = reg_sp
  /\ IF cpc = "final"
     THEN /\ ub' = TRUE
          /\ UNCHANGED <<cpc, payload, input, in_recv>>
     ELSE IF data = NullPtr
     THEN /\ Panics(UnitPayload)
          /\ UNCHANGED <<ub, input, in_recv>>
     ELSE /\ input' = input
          /\ in_recv' = Append(in_recv, data.val)
          /\ ub' = (ub \/ data.tag # "Input")
          /\ cpc' = "closure"
          /\ UNCHANGED payload
  /\ UNCHANGED <<elsewhere, params, tlsUse, genVars, tlsVars, swapVars,
                 fpc, pend, objVars, hostVars, in_sent, out_sent, out_recv,
                 raised, steps, fpolls,
                 awaits, returns>>

\* suspend_ continues after its swap: the return point is set first; the
\* zero data pointer triggers the unwind, anything else is the next input.
\* Continuing after Finished or Panic was sent is undefined.
SuspendReturn ==
  /\ side = "coro" /\ cpc \in {"suspended", "final"}
  /\ yielder_sp' = reg_sp
  /\ IF cpc = "final"
     THEN /\ ub' = TRUE
          /\ UNCHANGED <<cpc, payload, input, in_recv>>
     ELSE IF data = NullPtr
     THEN /\ Panics(UnitPayload)
          /\ UNCHANGED <<ub, input, in_recv>>
     ELSE /\ input' = data.val
          /\ in_recv' = Append(in_recv, data.val)
          /\ ub' = (ub \/ data.tag # "Input")
          /\ cpc' = "closure"
          /\ UNCHANGED payload
  /\ UNCHANGED <<elsewhere, params, tlsUse, genVars, tlsVars, swapVars,
                 fpc, pend, objVars, hostVars, in_sent, out_sent, out_recv,
                 raised, steps, fpolls,
                 awaits, returns>>

\* Add1 with the addition left out.
Add1Same(n) == [ok |-> TRUE, val |-> n]

\* input + 1 on i32: with overflow checks the addition panics, without
\* them it wraps.
Add1(n) ==
  IF n = I32Max THEN [ok |-> FALSE, val |-> I32Min]
  ELSE [ok |-> TRUE, val |-> n + 1]

\* suspend(input + 1) as the closures of the generator tests write it.
SuspendAdd1 ==
  IF ~Add1(input).ok /\ build = "debug"
  THEN /\ Panics(OverflowPayload)
       /\ UNCHANGED <<regVars, out_sent>>
  ELSE /\ suspend_(OutValue("na", Add1(input).val))
       /\ UNCHANGED payload

\* One turn of the add-one loop: break on 0, else suspend(input + 1).
AddOneStep ==
  /\ side = "coro" /\ cpc = "closure" /\ closure.kind = "add_one"
  /\ steps' = steps + 1
  /\ IF input = 0
     THEN /\ cpc' = "returned"
          /\ DropAll({Obj("f", 0)})
          /\ UNCHANGED <<regVars, out_sent, payload>>
     ELSE /\ SuspendAdd1
          /\ UNCHANGED objVars
  /\ UNCHANGED <<elsewhere, params, tlsUse, genVars, tlsVars, yielder_sp, input, fpc, pend,
                 hostVars, in_sent, in_recv, out_recv, raised, fpolls,
                 awaits, returns>>

\* generator_with_drop: the marker is created, then four suspends, then
\* the closure returns and its locals are dropped.
WithDropStep ==
  /\ side = "coro" /\ cpc = "closure" /\ closure.kind = "with_drop"
  /\ steps' = steps + 1
  /\ IF fpc < 4
     THEN /\ SuspendAdd1
          /\ fpc' = fpc + 1
          /\ live' = live \cup {Obj("marker", 0)}
          /\ UNCHANGED drops
     ELSE /\ cpc' = "returned"
          /\ DropAll({Obj("marker", 0), Obj("f", 0)})
          /\ UNCHANGED <<regVars, out_sent, payload, fpc>>
  /\ UNCHANGED <<elsewhere, params, tlsUse, genVars, tlsVars, yielder_sp, input, pend,
                 hostVars, in_sent, in_recv, out_recv, raised, fpolls,
                 awaits, returns>>

\* The value the user closure stores in the preserved slot before its
\* i-th await; no thread holds such a value of its own.
StoreValue(i) == 100 + i
\* A user closure that uses the preserved slot stores before every await
\* and loads after it.
Stored == tls_count = 0 \/ wrote.fut = fpc
Loaded == tls_count = 0 \/ Len(loads) = fpc - 1

\* The user closure sets the thread local of the thread it runs on.
ClosureStore ==
  /\ side = "coro" /\ cpc = "closure" /\ IsWormhole /\ tls_count = 1
  /\ fpc \in 1..NFuts /\ Loaded /\ wrote.fut < fpc
  /\ slot' = [slot EXCEPT ![thread] = StoreValue(fpc)]
  /\ wrote' = Store(fpc, StoreValue(fpc), thread)
  /\ UNCHANGED <<elsewhere, params, genVars, tls_value, thread, regVars,
                 coroVars, objVars, hostVars, histVars, loads>>

\* The user closure reads the thread local of the thread it runs on, after
\* the await that followed its last store returned.
ClosureLoad ==
  /\ side = "coro" /\ cpc = "closure" /\ IsWormhole /\ tls_count = 1
  /\ fpc \in 2..(NFuts + 1) /\ Len(loads) < fpc - 1
  /\ loads' = Append(loads, [stored |-> wrote.val, loaded |-> slot[thread],
                             from |-> wrote.thread, on |-> thread,
                             suspensions |-> Len(awaits[fpc - 1].polls) - 1])
  /\ UNCHANGED <<elsewhere, params, genVars, tlsVars, regVars, coroVars,
                 objVars, hostVars, histVars, wrote>>

\* Code outside the closure sets the thread local of thread t between two
\* polls.
ForeignStore(t, v) ==
  /\ side = "host" /\ hpc = "idle" /\ IsWormhole /\ tls_count = 1
  /\ ops < MaxOps /\ slot[t] # v
  /\ slot' = [slot EXCEPT ![t] = v]
  /\ UNCHANGED <<elsewhere, params, tlsUse, genVars, tls_value, thread, regVars,
                 coroVars, objVars, hostVars, histVars>>

\* The value the i-th awaited future resolves to (async { 5 } is the first
\* future of the async test).
FutValue(i) == 4 + i

\* Future::poll on the i-th awaited future, which still answers Pending
\* `left` times before it is Ready with its value.
FuturePoll(i, left) ==
  IF left = 0 THEN [ready |-> TRUE, val |-> FutValue(i)]
  ELSE [ready |-> FALSE, val |-> 0]

\* The history of async_suspend calls after one more turn of the loop, in
\* which the future answered r: the call on the fpc-th future is entered
\* at its first turn (during host call number ops) and returns r.val in
\* the turn whose answer is Ready.
Awaited(r) ==
  LET first == Len(awaits) < fpc
      cur == IF first
             THEN [fut |-> fpc, from |-> ops, polls |-> <<>>, done |-> FALSE,
                   value |-> 0, to |-> 0]
             ELSE awaits[fpc]
      new == [cur EXCEPT !.polls = Append(@, input), !.done = r.ready,
                         !.value = r.val,
                         !.to = IF r.ready THEN ops ELSE 0]
  IN IF first THEN Append(awaits, new) ELSE [awaits EXCEPT ![fpc] = new]

\* async_suspend that suspends the generator after every poll of the
\* future, also after a Ready one.
AsyncSuspendAlwaysYields ==
  /\ side = "coro" /\ cpc = "closure" /\ IsWormhole /\ fpc \in 1..NFuts
  /\ Stored
  /\ steps' = steps + 1
  /\ fpolls' = Append(fpolls, input)
  /\ awaits' = Awaited(FuturePoll(fpc, pend))
  /\ suspend_(OutValue("none", 0))
  /\ IF FuturePoll(fpc, pend).ready
     THEN /\ DropAll({Obj("future", fpc)})
          /\ fpc' = fpc + 1
          /\ pend' = PendOf(fpc + 1)
     ELSE /\ pend' = pend - 1
          /\ live' = live \cup {Obj("future", fpc)}
          /\ UNCHANGED <<drops, fpc>>
  /\ UNCHANGED <<elsewhere, params, tlsUse, genVars, tlsVars, yielder_sp, input, payload,
                 hostVars, in_sent, in_recv, out_recv, raised, returns>>

\* async_suspend that polls a Pending future again at once instead of
\* suspending the generator.
AsyncSuspendBusyPolls ==
  /\ side = "coro" /\ cpc = "closure" /\ IsWormhole /\ fpc \in 1..NFuts
  /\ Stored
  /\ steps' = steps + 1
  /\ fpolls' = Append(fpolls, input)
  /\ awaits' = Awaited(FuturePoll(fpc, pend))
  /\ IF FuturePoll(fpc, pend).ready
     THEN /\ DropAll({Obj("future", fpc)})
          /\ fpc' = fpc + 1
          /\ pend' = PendOf(fpc + 1)
     ELSE /\ pend' = pend - 1
          /\ live' = live \cup {Obj("future", fpc)}
          /\ UNCHANGED <<drops, fpc>>
  /\ UNCHANGED <<elsewhere, params, tlsUse, genVars, tlsVars, regVars, out_sent, cpc,
                 yielder_sp, input, payload,
                 hostVars, in_sent, in_recv, out_recv, raised, returns>>

\* One turn of the loop of AsyncYielder::async_suspend on the fpc-th
\* future: poll it with the waker held; Ready returns the value inline,
\* Pending suspends the generator with None.
AsyncSuspendPoll ==
  /\ side = "coro" /\ cpc = "closure" /\ IsWormhole /\ fpc \in 1..NFuts
  /\ Stored
  /\ steps' = steps + 1
  /\ fpolls' = Append(fpolls, input)
  /\ awaits' = Awaited(FuturePoll(fpc, pend))
  /\ IF FuturePoll(fpc, pend).ready
     THEN /\ DropAll({Obj("future", fpc)})
          /\ fpc' = fpc + 1
          /\ pend' = PendOf(fpc + 1)
          /\ UNCHANGED <<regVars, out_sent, cpc>>
     ELSE /\ pend' = pend - 1
          /\ live' = live \cup {Obj("future", fpc)}
          /\ suspend_(OutValue("none", 0))
          /\ UNCHANGED <<drops, fpc>>
  /\ UNCHANGED <<elsewhere, params, tlsUse, genVars, tlsVars, yielder_sp, input, payload,
                 hostVars, in_sent, in_recv, out_recv, raised, returns>>

\* The user closure ends: it panics, or it returns its value, which the
\* generator's closure sends with suspend(Some(value)).
UserClosureEnd ==
  /\ side = "coro" /\ cpc = "closure" /\ IsWormhole /\ fpc = NFuts + 1
  /\ Loaded
  /\ steps' = steps + 1
  /\ IF closure.ending = "panic"
     THEN /\ Panics(UserPayload)
          /\ UNCHANGED <<regVars, out_sent, objVars, fpc>>
     ELSE /\ DropAll({Obj("ay", 0), Obj("f", 0)})
          /\ suspend_(OutValue("some", UserValue))
          /\ fpc' = fpc + 1
          /\ UNCHANGED payload
  /\ UNCHANGED <<elsewhere, params, tlsUse, genVars, tlsVars, yielder_sp, input, pend,
                 hostVars, in_sent, in_recv, out_recv, raised, fpolls,
                 awaits, returns>>

\* The generator's closure of the wormhole continues after
\* suspend(Some(value)) and returns.
WormholeTail ==
  /\ side = "coro" /\ cpc = "closure" /\ IsWormhole /\ fpc = NFuts + 2
  /\ cpc' = "returned"
  /\ UNCHANGED <<elsewhere, params, tlsUse, genVars, tlsVars, regVars, yielder_sp, input, fpc,
                 pend, payload, objVars, hostVars, histVars>>

\* The unwind runs the destructors of everything alive on the coroutine
\* stack, up to the catch_unwind of generator_wrapper.
Unwind ==
  /\ side = "coro" /\ cpc = "unwinding"
  /\ DropAll(live)
  /\ cpc' = "caught"
  /\ UNCHANGED <<elsewhere, params, tlsUse, genVars, tlsVars, regVars, yielder_sp, input, fpc,
                 pend, payload, hostVars, histVars>>

\* The match on catch_unwind's result: Finished or Panic is sent out.
WrapperFinish ==
  /\ side = "coro" /\ cpc \in {"returned", "caught"}
  /\ suspend_(IF cpc = "returned" THEN OutFinished ELSE OutPanic(payload))
  /\ UNCHANGED <<elsewhere, params, tlsUse, genVars, tlsVars, yielder_sp, input, fpc, pend,
                 payload, objVars, hostVars, in_sent, in_recv, out_recv,
                 raised, steps, fpolls,
                 awaits, returns>>

\* Coroutine code touches an address beyond its usable stack while the host
\* has PreAllocatedStack::signal_handler installed (extend_small_stack): the
\* OS raises the guard page signal on this thread and the handler runs on
\* what resume left in CURRENT_STACK. Unless the handler returns true the
\* faulting instruction is not retried and the process ends.
GuardFault(si_addr, os_ok) ==
  /\ side = "coro" /\ cpc = "closure"
  /\ handled = NoSignal
  /\ LET signum == expected_guard_page_signal(platform)
         r == signal_handler(platform, signum, si_addr, CURRENT_STACK, os_ok)
     IN /\ CURRENT_STACK' = r.slot
        /\ handled' = Signal(signum, si_addr, CURRENT_STACK, os_ok, r.ret)
        /\ side' = IF r.ret = "true" THEN side ELSE "aborted"
  /\ UNCHANGED <<poolVars, platform, owned, reserved, asked, grown, access,
                 machine, pair>>
  /\ UNCHANGED <<params, tlsUse, genVars, tlsVars, data, reg_sp, saved, next_sp,
                 switch_ins, ub, coroVars, objVars, hostVars, histVars>>

\* -------------------------------------------------------------- Next
Next ==
  \/ \E t \in Threads : (IsWormhole \/ t = 1) /\ GeneratorNew(t)
  \/ WrapperEntry
  \/ GeneratorNewReturn
  \/ \E n \in Inputs : Resume(n)
  \/ \E t \in Threads : Poll(t)
  \/ ResumeReturn
  \/ \E op \in {"drop", "stack"}, t \in Threads : DropEnter(op, t)
  \/ DropReturn
  \/ WrapperStart
  \/ SuspendReturn
  \/ AddOneStep
  \/ WithDropStep
  \/ ClosureStore
  \/ AsyncSuspendPoll
  \/ ClosureLoad
  \/ \E t \in Threads, v \in SlotValues : ForeignStore(t, v)
  \/ UserClosureEnd
  \/ WormholeTail
  \/ Unwind
  \/ WrapperFinish
  \/ \E si_addr \in FaultAddrs(CURRENT_STACK), os_ok \in BOOLEAN :
       GuardFault(si_addr, os_ok)

Spec == Init /\ [][Next]_vars

\* A thread that can take a step takes one: code that is running, on the
\* host or on the coroutine stack, goes on to its next statement.
FairSpec == Spec /\ WF_vars(Next)

\* ---------------------------------------------------- OneMbAsyncPool
\* OneMbAsyncPool::new(capacity) was called; no stack is mapped yet and no
\* generator is involved.
PoolInit ==
  /\ capacity \in 1..MaxCapacity /\ pool = <<>>
  /\ stacks = [s \in StackIds |-> "unmapped"]
  /\ ppc = [t \in PoolThreads |-> "idle"] /\ hand = [t \in PoolThreads |-> 0]
  /\ recycled = NoPush /\ acquired = NoPop
  /\ closure = AddOne /\ build = "debug" /\ tls_count = 0
  /\ slot = [t \in Threads |-> 0]
  /\ NothingBuilt
  /\ platform = "linux" /\ NoStackYet

\* with_tls that never looks into the queue.
WithTlsPopNothing(t) ==
  /\ ppc[t] = "idle"
  /\ ppc' = [ppc EXCEPT ![t] = "with_tls"]
  /\ hand' = [hand EXCEPT ![t] = 0]
  /\ acquired' = Pop(recycled, 0, 0, t)
  /\ recycled' = NoPush
  /\ UNCHANGED <<wormholeVars, machine, pair, stackVars, capacity, pool, stacks>>

\* with_tls whose pop reads the head of the queue and leaves it there.
WithTlsPopPeeks(t) ==
  /\ ppc[t] = "idle"
  /\ ppc' = [ppc EXCEPT ![t] = "with_tls"]
  /\ LET got == IF pool = <<>> THEN 0 ELSE Head(pool)
     IN /\ pool' = pool
        /\ hand' = [hand EXCEPT ![t] = got]
        /\ stacks' = IF got = 0 THEN stacks
                     ELSE [stacks EXCEPT ![got] = "hand"]
        /\ acquired' = Pop(recycled, got, 0, t)
  /\ recycled' = NoPush
  /\ UNCHANGED <<wormholeVars, machine, pair, stackVars, capacity>>

\* with_tls on thread t, up to its self.pool.pop(): the oldest stack of
\* the queue, or None when the queue is empty.
WithTlsPop(t) ==
  /\ ppc[t] = "idle"
  /\ ppc' = [ppc EXCEPT ![t] = "with_tls"]
  /\ LET got == IF pool = <<>> THEN 0 ELSE Head(pool)
     IN /\ pool' = IF pool = <<>> THEN pool ELSE Tail(pool)
        /\ hand' = [hand EXCEPT ![t] = got]
        /\ stacks' = IF got = 0 THEN stacks
                     ELSE [stacks EXCEPT ![got] = "hand"]
        /\ acquired' = Pop(recycled, got, 0, t)
  /\ recycled' = NoPush
  /\ UNCHANGED <<wormholeVars, machine, pair, stackVars, capacity>>

\* The last pop, once thread t has built its wormhole on stack s.
Built(t, s) ==
  IF acquired.thread = t THEN [acquired EXCEPT !.built = s] ELSE acquired

\* The match of with_tls: a popped stack is used; on None OneMbStack::new
\* maps a stack at address s, or its mmap fails (mapped = FALSE) and
\* with_tls returns the error. The wormhole is built on the stack.
WithTlsBuild(t, mapped, s) ==
  /\ ppc[t] = "with_tls"
  /\ ppc' = [ppc EXCEPT ![t] = "idle"]
  /\ hand' = [hand EXCEPT ![t] = 0]
  /\ IF hand[t] # 0
     THEN /\ mapped /\ s = hand[t]
          /\ stacks' = [stacks EXCEPT ![s] = "wormhole"]
          /\ acquired' = Built(t, s)
          /\ asked' = asked
     ELSE LET os == Family(platform)
              calls == IF mapped THEN OsCalls(os, OneMb) ELSE 0
          IN /\ asked' = Ask(OneMb, 0, ~mapped, FixedNewOk(os, calls))
             /\ IF FixedNewOk(os, calls)
                THEN /\ stacks[s] = "unmapped"
                     /\ stacks' = [stacks EXCEPT ![s] = "wormhole"]
                     /\ acquired' = Built(t, s)
                ELSE UNCHANGED <<stacks, acquired>>
  /\ UNCHANGED <<wormholeVars, machine, pair, platform, owned, CURRENT_STACK, reserved, grown,
                 handled, access, capacity, pool, recycled>>

\* recycle whose stack() hands out the stack and leaves it in the generator
\* as well.
RecycleStackShares(t, s) ==
  /\ ppc[t] = "idle" /\ stacks[s] = "wormhole"
  /\ ppc' = [ppc EXCEPT ![t] = "recycle"]
  /\ hand' = [hand EXCEPT ![t] = s]
  /\ stacks' = stacks
  /\ UNCHANGED <<wormholeVars, machine, pair, stackVars, capacity, pool, recycled, acquired>>

\* recycle on thread t of the wormhole that runs on stack s, up to
\* async_wormhole.stack(): the wormhole is consumed, the thread holds its
\* stack.
RecycleStack(t, s) ==
  /\ ppc[t] = "idle" /\ stacks[s] = "wormhole"
  /\ ppc' = [ppc EXCEPT ![t] = "recycle"]
  /\ hand' = [hand EXCEPT ![t] = s]
  /\ stacks' = [stacks EXCEPT ![s] = "hand"]
  /\ UNCHANGED <<wormholeVars, machine, pair, stackVars, capacity, pool, recycled, acquired>>

\* recycle that pushes without regard for the capacity.
RecyclePushAlways(t) ==
  /\ ppc[t] = "recycle"
  /\ ppc' = [ppc EXCEPT ![t] = "idle"]
  /\ hand' = [hand EXCEPT ![t] = 0]
  /\ pool' = Append(pool, hand[t])
  /\ stacks' = [stacks EXCEPT ![hand[t]] = "pooled"]
  /\ recycled' = Push(hand[t], TRUE, pool = <<>>)
  /\ UNCHANGED <<wormholeVars, machine, pair, stackVars, capacity, acquired>>

\* let _ = self.pool.push(stack): a queue that is full gives the stack
\* back in the error, which is dropped, and the stack unmapped with it.
RecyclePush(t) ==
  /\ ppc[t] = "recycle"
  /\ ppc' = [ppc EXCEPT ![t] = "idle"]
  /\ hand' = [hand EXCEPT ![t] = 0]
  /\ LET full == Len(pool) = capacity
     IN /\ pool' = IF full THEN pool ELSE Append(pool, hand[t])
        /\ stacks' = [stacks EXCEPT ![hand[t]] =
                        IF full THEN "unmapped" ELSE "pooled"]
        /\ recycled' = Push(hand[t], ~full, pool = <<>>)
  /\ UNCHANGED <<wormholeVars, machine, pair, stackVars, capacity, acquired>>

\* A wormhole is dropped instead of recycled: its stack is unmapped.
WormholeDrop(s) ==
  /\ stacks[s] = "wormhole"
  /\ stacks' = [stacks EXCEPT ![s] = "unmapped"]
  /\ UNCHANGED <<wormholeVars, machine, pair, stackVars, capacity, pool, ppc, hand, recycled, acquired>>

PoolNext ==
  \/ \E t \in PoolThreads : WithTlsPop(t)
  \/ \E t \in PoolThreads, mapped \in BOOLEAN, s \in StackIds :
       WithTlsBuild(t, mapped, s)
  \/ \E t \in PoolThreads, s \in StackIds : RecycleStack(t, s)
  \/ \E t \in PoolThreads : RecyclePush(t)
  \/ \E s \in StackIds : WormholeDrop(s)

PoolSpec == PoolInit /\ [][PoolNext]_vars

\* --------------------------------------------------- stack allocators
\* No stack exists yet; the platform is the one the crate was built for.
StackInit ==
  /\ platform \in Platforms
  /\ NoStackYet
  /\ closure = AddOne /\ build = "debug"
  /\ tls_count = 0 /\ slot = [t \in Threads |-> 0]
  /\ NothingBuilt
  /\ NoPool

Running == handled.ret # "panic"
\* One reservation at a time: new is called when the thread holds no
\* stack and nothing is left reserved.
NoLiveStack == owned = NoStack /\ CURRENT_STACK = NoStack /\ reserved = {}

\* new of the fixed stacks, the OS letting the first `calls` of its system
\* calls succeed: one mmap on unix, three calls on Windows.
FixedNew(type, base, calls) ==
  /\ Running /\ NoLiveStack
  /\ LET os == Family(platform)
         needed == OsCalls(os, type)
         size == FixedSize(type) + (IF os = "unix" THEN 0 ELSE EXCEPTION_ZONE)
     IN /\ calls \in 0..needed
        /\ owned' = IF FixedNewOk(os, calls) THEN Stack(os, type, base, 0, 0)
                    ELSE NoStack
        /\ reserved' = IF calls >= 1 THEN reserved \cup {Region(base, size)}
                       ELSE reserved
        /\ asked' = Ask(type, 0, calls < needed, FixedNewOk(os, calls))
  /\ grown' = <<>>
  /\ handled' = NoSignal
  /\ UNCHANGED <<wormholeVars, machine, pair, poolVars, access, platform, CURRENT_STACK>>

\* PreAllocatedStack::new(total_size): alloc, then extend_usable(bottom,
\* page_size()); mprotect refuses an address that is not page aligned.
PreNew(total_size, base, calls) ==
  /\ Running /\ NoLiveStack
  /\ LET os == Family(platform)
         needed == OsCalls(os, PreAllocated)
         total == total_size + (IF os = "unix" THEN PageSize ELSE 4 * PageSize)
         b == add(base, total, 1)
         aligned == sub(b, PageSize, 1) % PageSize = 0
         extended == PreNewOk(os, calls, aligned)
         t == IF os = "unix" THEN sub(b, PageSize, 1)
              ELSE add(base, 4 * PageSize, 1)
     IN /\ calls \in 0..needed
        /\ owned' = IF extended THEN Stack(os, PreAllocated, base, t, b)
                    ELSE NoStack
        /\ reserved' = IF calls >= 1 THEN reserved \cup {Region(base, total)}
                       ELSE reserved
        /\ asked' = Ask(PreAllocated, total_size,
                        calls < needed \/ (os = "unix" /\ ~aligned), extended)
  /\ grown' = <<>>
  /\ handled' = NoSignal
  /\ UNCHANGED <<wormholeVars, machine, pair, poolVars, access, platform, CURRENT_STACK>>

\* One entry of grown: what grow returned, whether the OS let mprotect
\* succeed, and the usable size after the call.
Grown(r, os_ok) ==
  [ok |-> r.ok, os_ok |-> os_ok, usable |-> bottom(r.stack) - top(r.stack)]

\* stack.grow() on the stack the caller holds (unix only).
Grow(os_ok) ==
  /\ Running
  /\ owned.type = PreAllocated /\ owned.os = "unix"
  /\ Len(grown) < MaxGrows
  /\ owned' = grow(owned, os_ok).stack
  /\ grown' = Append(grown, Grown(grow(owned, os_ok), os_ok))
  /\ handled' = NoSignal
  /\ UNCHANGED <<wormholeVars, machine, pair, poolVars, access, platform, CURRENT_STACK, reserved,
                 asked>>

\* stack.give_to_signal(): into the slot on unix; on Windows the stack is
\* taken by value and dropped.
GiveToSignal ==
  /\ Running
  /\ owned.type = PreAllocated
  /\ IF owned.os = "unix"
     THEN CURRENT_STACK' = owned /\ reserved' = reserved
     ELSE CURRENT_STACK' = CURRENT_STACK
          /\ reserved' = reserved \ DropRegions(owned)
  /\ owned' = NoStack
  /\ handled' = NoSignal
  /\ UNCHANGED <<wormholeVars, machine, pair, poolVars, access, platform, asked, grown>>

\* PreAllocatedStack::take_from_signal(): None on Windows.
TakeFromSignal ==
  /\ Running
  /\ owned = NoStack
  /\ IF Family(platform) = "unix"
     THEN owned' = CURRENT_STACK /\ CURRENT_STACK' = NoStack
     ELSE UNCHANGED <<owned, CURRENT_STACK>>
  /\ handled' = NoSignal
  /\ UNCHANGED <<wormholeVars, machine, pair, poolVars, access, platform, reserved, asked, grown>>

\* The OS delivers a signal on this thread and the handler runs.
SignalHandler(signum, si_addr, os_ok) ==
  /\ Running
  /\ LET r == signal_handler(platform, signum, si_addr, CURRENT_STACK, os_ok)
     IN /\ CURRENT_STACK' = r.slot
        /\ handled' = Signal(signum, si_addr, CURRENT_STACK, os_ok, r.ret)
        /\ grown' = IF Family(platform) = "unix"
                       /\ signum = expected_guard_page_signal(platform)
                       /\ CURRENT_STACK # NoStack
                       /\ stack_pointer_inside_guard(CURRENT_STACK, si_addr)
                       /\ Len(grown) < MaxGrows
                    THEN Append(grown, Grown(grow(CURRENT_STACK, os_ok), os_ok))
                    ELSE grown
  /\ UNCHANGED <<wormholeVars, machine, pair, poolVars, access, platform, owned, reserved, asked>>

\* The caller's stack goes out of scope.
Drop ==
  /\ Running
  /\ owned # NoStack
  /\ reserved' = reserved \ DropRegions(owned)
  /\ owned' = NoStack
  /\ handled' = NoSignal
  /\ UNCHANGED <<wormholeVars, machine, pair, poolVars, access, platform, CURRENT_STACK, asked, grown>>

StackNext ==
  \/ \E type \in FixedTypes, base \in Bases, calls \in 0..3 :
       FixedNew(type, base, calls)
  \/ \E total_size \in Sizes, base \in Bases, calls \in 0..3 :
       PreNew(total_size, base, calls)
  \/ \E os_ok \in BOOLEAN : Grow(os_ok)
  \/ GiveToSignal
  \/ TakeFromSignal
  \/ \E signum \in Signals, si_addr \in FaultAddrs(CURRENT_STACK),
        os_ok \in BOOLEAN : SignalHandler(signum, si_addr, os_ok)
  \/ Drop

StackSpec == StackInit /\ [][StackNext]_vars

\* Distances below bottom() the tests and benchmarks store at: the first
\* byte, the ends of the first page, the first byte past it and the last
\* address of the requested size.
StoreOffsets(total_size) ==
  {off \in {1, PageSize, PageSize + 1, total_size} : off <= total_size}

\* let bottom = stack.bottom(); the program will store at bottom.sub(off).
Bottom(off) ==
  /\ Running /\ access = NoAccess
  /\ owned.type = PreAllocated
  /\ access' = Access(bottom(owned) - off, "planned", 0, FALSE)
  /\ handled' = NoSignal
  /\ UNCHANGED <<wormholeVars, machine, pair, poolVars, platform, owned, CURRENT_STACK,
                 reserved, asked, grown>>

\* The address lies in memory the process may write: inside a range that
\* is still reserved and inside the usable part of the stack in the slot.
Writable(a) ==
  /\ \E r \in reserved : r.base <= a /\ a < r.base + r.size
  /\ CURRENT_STACK # NoStack
  /\ top(CURRENT_STACK) <= a /\ a < bottom(CURRENT_STACK)

\* *(bottom.sub(off)) = v after give_to_signal, with signal_handler
\* installed: the store succeeds on writable memory; otherwise the OS raises
\* the platform's guard page signal with the address, the handler runs, and
\* the instruction is retried when it returned true.
PointerStore(os_ok) ==
  /\ Running /\ owned = NoStack
  /\ access.state \in {"planned", "retry"}
  /\ IF Writable(access.addr)
     THEN /\ access' = [access EXCEPT !.state = "done"]
          /\ handled' = NoSignal
          /\ UNCHANGED <<CURRENT_STACK, grown>>
     ELSE LET signum == expected_guard_page_signal(platform)
              cur == CURRENT_STACK
              r == signal_handler(platform, signum, access.addr, cur, os_ok)
              grows == /\ Family(platform) = "unix" /\ cur # NoStack
                       /\ stack_pointer_inside_guard(cur, access.addr)
          IN /\ CURRENT_STACK' = r.slot
             /\ handled' = Signal(signum, access.addr, cur, os_ok, r.ret)
             /\ grown' = IF grows /\ Len(grown) < MaxGrows
                          THEN Append(grown, Grown(grow(cur, os_ok), os_ok))
                          ELSE grown
             /\ access' = [access EXCEPT
                   !.state = IF r.ret = "true" THEN "retry" ELSE "killed",
                   !.faults = @ + 1,
                   !.refused = (@ \/ (grows /\ ~os_ok))]
  /\ UNCHANGED <<wormholeVars, machine, pair, poolVars, platform, owned, reserved, asked>>

\* The program of trigger_signal_and_grow_stack_outside_first_4kb and of
\* the signal benchmarks: new, bottom(), give_to_signal, the store.
StoreNext ==
  \/ \E total_size \in Sizes, base \in Bases, calls \in 0..3 :
       PreNew(total_size, base, calls)
  \/ \E off \in StoreOffsets(asked.total_size) : Bottom(off)
  \/ access.state = "planned" /\ GiveToSignal
  \/ \E os_ok \in BOOLEAN : PointerStore(os_ok)

\* The store instruction is executed, and executed again after every
\* fault the handler handled.
StoreSpec ==
  /\ StackInit /\ [][StoreNext]_vars
  /\ WF_vars(\E os_ok \in BOOLEAN : PointerStore(os_ok))

\* ------------------------------------------------- the first switch
\* Stack pointers of the thread that calls Generator::new, and the closure
\* pointers it passes as arg.
HostSps == {32 * EIGHT_MB, 32 * EIGHT_MB - 4 * PageSize}
ArgPtrs == {32 * EIGHT_MB + SizeOfUsize, 32 * EIGHT_MB + PageSize}

\* let stack_ptr = arch::init(&stack, generator_wrapper) on a stack the
\* caller holds.
ArchInit(arch, type, base, host_sp, arg) ==
  /\ machine = NoMachine
  /\ ArchFamily(arch) = Family(platform)
  /\ LET s == Stack(ArchFamily(arch), type, base, 0, 0)
         st == init(arch, s)
     IN machine' = [NoMachine EXCEPT
          !.arch = arch, !.pc = "init", !.stack = s, !.image = st.mem,
          !.mem = st.mem, !.new_sp = st.sp, !.host_sp = host_sp, !.arg = arg]
  /\ UNCHANGED <<wormholeVars, poolVars, stackVars, pair>>

\* swap_and_link_stacks(arg, new_sp, stack.bottom()) up to the link: the
\* caller's registers are pushed on its own stack.
LinkSave ==
  /\ machine.pc = "init"
  /\ machine' = [machine EXCEPT
       !.pc = "saved", !.host_sp = @ - SavedBytes(machine.arch)]
  /\ UNCHANGED <<wormholeVars, poolVars, stackVars, pair>>

\* The link: the stack pointer goes into [sp - K], sp being bottom().
LinkStore ==
  /\ machine.pc = "saved"
  /\ LET a == bottom(machine.stack) - LinkOffset(machine.arch)
     IN machine' = [machine EXCEPT
          !.pc = "linked", !.mem = [@ EXCEPT ![a] = Num(machine.host_sp)]]
  /\ UNCHANGED <<wormholeVars, poolVars, stackVars, pair>>

\* The second argument register takes the caller's stack pointer and the
\* stack pointer register takes new_sp; arg is in the first.
LinkSwitch ==
  /\ machine.pc = "linked"
  /\ machine' = [machine EXCEPT
       !.pc = "switched", !.rsp = machine.new_sp,
       !.arg1 = Num(machine.arg), !.arg2 = Num(machine.host_sp)]
  /\ UNCHANGED <<wormholeVars, poolVars, stackVars, pair>>

\* One pop from the new stack.
LinkPop ==
  /\ machine.pc = "switched"
  /\ machine.pops < Len(PopOrder(machine.arch))
  /\ LET r == PopOrder(machine.arch)[machine.pops + 1]
     IN machine' = [machine EXCEPT
          !.regs = [@ EXCEPT ![r] = machine.mem[machine.rsp]],
          !.rsp = @ + SizeOfUsize, !.pops = @ + 1]
  /\ UNCHANGED <<wormholeVars, poolVars, stackVars, pair>>

\* jmp rax / br x30.
LinkJump ==
  /\ machine.pc = "switched"
  /\ machine.pops = Len(PopOrder(machine.arch))
  /\ machine' = [machine EXCEPT !.pc = "trampoline"]
  /\ UNCHANGED <<wormholeVars, poolVars, stackVars, pair>>

\* The instruction at the address jumped to executes: a nop, or the
\* indirect call, which enters what the slot at [sp + disp] holds.
TrampolineStep ==
  /\ machine.pc = "trampoline"
  /\ LET i == Instr(machine.arch, machine.regs["ip"])
     IN IF i.op = "nop"
        THEN machine' = [machine EXCEPT !.regs["ip"].n = @ + i.len]
        ELSE IF i.op = "call"
        THEN LET target == machine.mem[machine.rsp + i.disp]
             IN machine' = [machine EXCEPT
                  !.called = target,
                  !.pc = IF target.tag = "code" THEN "entered" ELSE "fault"]
        ELSE machine' = [machine EXCEPT !.pc = "fault"]
  /\ UNCHANGED <<wormholeVars, poolVars, stackVars, pair>>

ArchNext ==
  \/ \E arch \in Archs, type \in FixedTypes, base \in Bases,
        host_sp \in HostSps, arg \in ArgPtrs :
       ArchInit(arch, type, base, host_sp, arg)
  \/ LinkSave
  \/ LinkStore
  \/ LinkSwitch
  \/ LinkPop
  \/ LinkJump
  \/ TrampolineStep

ArchSpec == StackInit /\ [][ArchNext]_vars

\* ------------------------------------- two wormholes, one preserved key
\* The k-th value the closure of wormhole w stores in the slot.
Val(w, k) == 100 * w + k
WrittenBy(w) == {Val(w, k) : k \in 1..MaxPairStores}
\* The wormhole whose closure runs on thread t: the innermost poll.
Innermost(t) ==
  IF pair.run[t] = <<>> THEN 0 ELSE pair.run[t][Len(pair.run[t])]
Leave(s) == SubSeq(s, 1, Len(s) - 1)

\* poll of w on t up to the switch into the closure: the first loop writes
\* the remembered value into the slot of t, then resume.
PollEnter(p, w, t) ==
  [p EXCEPT !.slot[t] = p.wh[w].value, !.run[t] = Append(@, w),
            !.wh[w].at = "running", !.wh[w].polled = @ + 1]

\* poll of w on t until a closure runs: a closure that was suspended in
\* async_suspend on the other wormhole polls that one again at once.
PollResume(p, w, t) ==
  IF p.wh[w].awaiting = 0 THEN PollEnter(p, w, t)
  ELSE PollEnter(PollEnter(p, w, t), p.wh[w].awaiting, t)

\* new_with_tls on thread t, outside every closure: the value of the slot
\* of t is remembered.
PairNew(w, t) ==
  /\ pair.wh[w].at = "none" /\ pair.run[t] = <<>>
  /\ pair' = [pair EXCEPT !.wh[w] =
                 Wormhole("parked", pair.slot[t], pair.slot[t], 0, 0, 0, 0)]
  /\ UNCHANGED <<wormholeVars, poolVars, stackVars, machine>>

\* An executor polls w on thread t. A wormhole that the other one's closure
\* holds in async_suspend is not the executor's to poll.
PairPoll(w, t) ==
  /\ pair.wh[w].at \in {"parked", "suspended"} /\ pair.run[t] = <<>>
  /\ pair.polls < MaxPairPolls
  /\ \A v \in PairIds : pair.wh[v].awaiting # w
  /\ pair' = [PollResume(pair, w, t) EXCEPT !.polls = @ + 1]
  /\ UNCHANGED <<wormholeVars, poolVars, stackVars, machine>>

\* The closure running on t stores to the slot.
PairStore(t) ==
  LET w == Innermost(t) IN
  /\ w # 0 /\ pair.wh[w].awaiting = 0
  /\ pair.wh[w].stores < MaxPairStores
  /\ LET v == Val(w, pair.wh[w].stores + 1)
     IN pair' = [pair EXCEPT !.slot[t] = v, !.wh[w].wrote = v,
                             !.wh[w].stores = @ + 1]
  /\ UNCHANGED <<wormholeVars, poolVars, stackVars, machine>>

\* The closure running on t loads from the slot.
PairLoad(t) ==
  LET w == Innermost(t) IN
  /\ w # 0 /\ pair.wh[w].awaiting = 0
  /\ pair' = [pair EXCEPT !.read = Read(w, pair.slot[t], pair.wh[w].wrote,
                                        pair.wh[w].cons, pair.wh[w].polled)]
  /\ UNCHANGED <<wormholeVars, poolVars, stackVars, machine>>

\* The closure running on t gives the other wormhole to async_suspend,
\* which polls it on the spot.
PairAwait(t) ==
  LET w == Innermost(t) IN
  /\ w # 0 /\ pair.wh[w].awaiting = 0
  /\ pair.polls < MaxPairPolls
  /\ \E v \in PairIds \ {w} :
       /\ pair.wh[v].at \in {"parked", "suspended"}
       /\ pair.wh[v].awaiting = 0
       /\ pair' = [PollEnter([pair EXCEPT !.wh[w].awaiting = v], v, t)
                     EXCEPT !.polls = @ + 1]
  /\ UNCHANGED <<wormholeVars, poolVars, stackVars, machine>>

\* The closure running on t suspends, because a future it awaits is
\* Pending (in async_suspend, the poll of the other wormhole returned
\* Pending): resume returns Some(None) and the second loop of poll
\* remembers the slot of t.
PairSuspend(t) ==
  LET w == Innermost(t) IN
  /\ w # 0
  /\ pair' = [pair EXCEPT !.wh[w].value = pair.slot[t],
                          !.wh[w].at = "suspended", !.run[t] = Leave(@)]
  /\ UNCHANGED <<wormholeVars, poolVars, stackVars, machine>>

\* The closure running on t returns: poll returns Ready without touching
\* the remembered value, and a closure that awaited this wormhole goes on.
PairReady(t) ==
  LET w == Innermost(t) IN
  /\ w # 0 /\ pair.wh[w].awaiting = 0
  /\ pair' = [pair EXCEPT
                 !.wh = [v \in PairIds |->
                           IF v = w THEN [pair.wh[v] EXCEPT !.at = "done"]
                           ELSE IF pair.wh[v].awaiting = w
                                THEN [pair.wh[v] EXCEPT !.awaiting = 0]
                                ELSE pair.wh[v]],
                 !.run[t] = Leave(@)]
  /\ UNCHANGED <<wormholeVars, poolVars, stackVars, machine>>

PairNext ==
  \/ \E w \in PairIds, t \in Threads : PairNew(w, t)
  \/ \E w \in PairIds, t \in Threads : PairPoll(w, t)
  \/ \E t \in Threads : PairStore(t)
  \/ \E t \in Threads : PairLoad(t)
  \/ \E t \in Threads : PairAwait(t)
  \/ \E t \in Threads : PairSuspend(t)
  \/ \E t \in Threads : PairReady(t)

PairSpec == StackInit /\ [][PairNext]_vars

\* ------------------------------------------- stacks, pooled or direct
\* A program that keeps its stacks in a pool, or one that has no pool
\* (capacity 0) and calls the stack allocators itself.
PoolUnused == capacity = 0

AllocInit == PoolInit \/ StackInit

AllocNext ==
  \/ PoolUnused /\ StackNext
  \/ ~PoolUnused /\ PoolNext

AllocSpec == AllocInit /\ [][AllocNext]_vars

\* ------------------------------------------------------------ claims
Last(q) == q[Len(q)]
IsPrefix(a, b) == Len(a) <= Len(b) /\ \A i \in 1..Len(a) : a[i] = b[i]
\* n + 1 in wrapping i32 arithmetic.
WrapSucc(n) == IF n = I32Max THEN I32Min ELSE n + 1
\* A resume (a poll) has returned and nothing was called since.
ResumeDone == hpc = "idle" /\ call.op = "resume"
PollDone == hpc = "idle" /\ call.op = "poll"

\* C1 as stated: for the add-one generator every resume(n) with n # 0
\* issued before termination returns Some(n + 1), for any input (n + 1
\* read as the i32 sum, so that a wrapped result would still count); the
\* first resume(0) and every resume after termination return None.
C1_AddOneAnyInput ==
  (closure.kind = "add_one" /\ ResumeDone) =>
    IF call.fin \/ call.arg = 0
    THEN ret = RetNone
    ELSE ret = Ret("Some", "na", WrapSucc(call.arg))

\* C1 amended: resume(n) with n # 0 and n # i32::MAX issued before
\* termination returns Some(n + 1); resume(i32::MAX) raises the overflow
\* panic and terminates the generator (overflow checks on) or returns
\* Some(i32::MIN) (wrapping); the first resume(0) and every resume after
\* termination return None.
C1_AddOne ==
  (closure.kind = "add_one" /\ ResumeDone) =>
    IF call.fin \/ call.arg = 0
    THEN ret = RetNone
    ELSE IF call.arg # I32Max
    THEN ret = Ret("Some", "na", call.arg + 1)
    ELSE \/ build = "debug" /\ ret = Ret("Panic", "na", OverflowPayload)
            /\ finished
         \/ build = "release" /\ ret = Ret("Some", "na", I32Min)

\* resume(127), resume(-1), resume(0) and one more resume were answered
\* Some(128), Some(0), None, None.
C1_Witness ==
  /\ closure.kind = "add_one" /\ ResumeDone /\ call.fin /\ call.arg # 0
  /\ ret = RetNone
  /\ out_recv = <<OutValue("na", 128), OutValue("na", 0), OutFinished>>

\* C2: the i-th input passed to resume is what the coroutine receives at
\* its i-th wake-up and the i-th output passed to suspend is what the i-th
\* resume returns; nothing is duplicated, lost or reordered.
C2_ValuesInOrder ==
  /\ IsPrefix(in_recv, in_sent) /\ Len(in_sent) - Len(in_recv) <= 1
  /\ IsPrefix(out_recv, out_sent) /\ Len(out_sent) - Len(out_recv) <= 1
  /\ (side = "coro" /\ cpc = "closure") =>
       (in_recv = in_sent /\ input = Last(in_sent))
  /\ hpc = "idle" =>
       (in_recv = in_sent /\ out_recv = out_sent /\ Len(out_recv) = Len(in_sent))
  /\ (hpc = "idle" /\ ret.tag \in {"Some", "Ready"}) =>
       Last(out_sent) = OutValue(ret.opt, ret.val)

\* Three different inputs went in and three outputs came back.
C2_Witness ==
  /\ hpc = "idle" /\ in_recv = <<2, 127, -1>>
  /\ out_recv = <<OutValue("na", 3), OutValue("na", 128), OutValue("na", 0)>>

\* The last output the host read was Finished or Panic.
Terminated == Len(out_recv) > 0 /\ Last(out_recv).tag \in {"Finished", "Panic"}

\* C3: once a resume ended with Finished or Panic the generator stays
\* finished, and every later resume returns None (Pending from poll)
\* without switching and without changing the generator.
C3_Terminal ==
  [][(hpc = "idle" /\ Terminated) =>
       /\ finished /\ finished'
       /\ switch_ins' = switch_ins /\ side' = "host"
       /\ ops' # ops =>
            /\ UNCHANGED genVars
            /\ ret' = IF call'.op = "poll" THEN RetPending ELSE RetNone]_vars

\* A resume issued after the closure panicked returned None.
C3_Witness ==
  /\ ResumeDone /\ Terminated /\ call.fin /\ ret = RetNone
  /\ Last(out_recv).tag = "Panic"

IsPanicOut(o) == o.tag = "Panic"
\* Payloads of the panics the closure sent out in answer to a resume.
Thrown ==
  LET n == IF Len(out_sent) < Len(in_sent) THEN Len(out_sent) ELSE Len(in_sent)
      ps == SelectSeq(SubSeq(out_sent, 1, n), IsPanicOut)
  IN [i \in 1..Len(ps) |-> ps[i].val]

\* C4: a panic of the closure crosses the switch as a value and is raised
\* on the host with the closure's payload, exactly once: later resumes
\* return None and the drop raises nothing.
C4_PanicOnce ==
  /\ Len(raised) <= 1
  /\ hpc # "resume" => raised = Thrown
  /\ (hpc = "resume" /\ side = "host" /\ Thrown # <<>>) =>
       (data = OutPanic(payload) /\ cpc = "final")
  /\ raised # <<>> =>
       /\ raised[1] = payload
       /\ payload = (IF IsWormhole THEN UserPayload ELSE OverflowPayload)
       /\ finished
  /\ (raised # <<>> /\ hpc = "idle" /\ call.fin) => ret \in {RetNone, RetPending}

\* A wormhole panicked in a poll, was polled again and then dropped.
C4_Witness ==
  /\ IsWormhole /\ hpc = "dropped" /\ raised = <<UserPayload>> /\ ops >= 2

\* Objects the activation came to own before the drop.
OwnedAtDrop ==
  {Obj("f", 0)}
    \cup (IF closure.kind = "with_drop" THEN {Obj("marker", 0)} ELSE {})
    \cup (IF IsWormhole THEN {Obj("ay", 0)} ELSE {})
    \cup {Obj("future", i) : i \in {j \in 1..NFuts : j <= fpc}}

\* C5: after a started and not finished generator was dropped (or gave up
\* its stack), every object its activation owned had its destructor run
\* exactly once and none is alive on the stack.
C5_DropRunsDestructors ==
  (started /\ call.op \in {"drop", "stack"} /\ ~call.fin
     /\ stack \in {"freed", "returned"}) =>
    /\ live = {}
    /\ \A o \in Objects : drops[o] = IF o \in OwnedAtDrop THEN 1 ELSE 0

\* A wormhole was dropped while its closure waited for its second future.
C5_Witness ==
  /\ IsWormhole /\ stack = "freed" /\ started /\ ~call.fin
  /\ fpc = 2 /\ drops[Obj("future", 2)] = 1 /\ drops[Obj("ay", 0)] = 1

\* C6: the drop of a started and not finished generator switches in once
\* with the zero data pointer, the yielder raises the unit panic on the
\* coroutine stack, the wrapper's catch turns it into a Panic output and
\* Drop discards that: nothing is raised on the dropping thread.
C6_DropSwallowsPanic ==
  /\ (hpc = "drop" /\ side = "coro" /\ cpc = "suspended") => data = NullPtr
  /\ (hpc = "drop" /\ cpc \in {"unwinding", "caught"}) =>
       (side = "coro" /\ payload = UnitPayload)
  /\ (hpc = "drop" /\ side = "host") => data.tag \in {"Panic", "Finished"}
  /\ (hpc = "dropped" /\ started /\ ~call.fin) =>
       /\ switch_ins = call.sw + 1
       /\ Last(out_recv) = OutPanic(UnitPayload)
       /\ raised = <<>>
       /\ cpc = "final"

\* The generator with the DropMarker was dropped after two resumes.
C6_Witness ==
  /\ closure.kind = "with_drop" /\ hpc = "dropped" /\ ~call.fin /\ ops = 2
  /\ drops[Obj("marker", 0)] = 1

\* C7: when new returns the generator is neither started nor finished and
\* no statement of the closure has run; the closure runs only once a
\* resume (a poll) was issued.
C7_NewRunsNothing ==
  /\ (hpc = "idle" /\ ops = 0) =>
       (~started /\ ~finished /\ steps = 0 /\ cpc = "parked" /\ in_recv = <<>>)
  /\ (steps > 0 \/ cpc = "closure") => (started /\ ops >= 1)

\* new returned for a wormhole: the closure is parked on the new stack.
C7_Witness ==
  /\ IsWormhole /\ hpc = "idle" /\ ops = 0 /\ live = {Obj("f", 0)}
  /\ ret = Ret("new", "na", 0)

Completed ==
  \E i \in 1..Len(out_recv) : out_recv[i].tag = "Value" /\ out_recv[i].opt = "some"
\* This step ends a poll.
PollEnds == hpc' = "idle" /\ call'.op = "poll" /\ (ops' # ops \/ hpc = "resume")

\* C9: once a poll returned Ready, every later poll returns Pending, no
\* statement of the user closure runs and nothing is raised.
C9_PendingAfterReady ==
  [][Completed =>
       /\ steps' = steps
       /\ raised' = raised
       /\ PollEnds => ret' = RetPending]_vars

\* Two polls after the Ready one returned Pending.
C9_Witness ==
  /\ Completed /\ PollDone /\ call.fin /\ ret = RetPending /\ finished

\* C10: when every awaited future is ready at its first poll, the first
\* poll of the wormhole runs the closure to its end with one resume and
\* returns Ready with the closure's value.
C10_AllReadyOnePoll ==
  (IsWormhole /\ closure.ending = "return" /\ PollDone /\ ops = 1
     /\ \A i \in 1..NFuts : closure.futs[i] = 0) =>
    /\ ret = Ret("Ready", "some", UserValue)
    /\ switch_ins = call.sw + 1
    /\ Len(in_sent) = 1
    /\ fpolls = [i \in 1..NFuts |-> 1]
    /\ steps = NFuts + 1

\* Two ready futures were awaited and the first poll returned Ready.
C10_Witness ==
  /\ IsWormhole /\ PollDone /\ ops = 1 /\ closure.futs = <<0, 0>>
  /\ ret = Ret("Ready", "some", UserValue)

\* C11: an async_suspend on a future that is Pending k times and then
\* Ready(v) returns v; the wormhole is polled k + 1 times from the call to
\* its return, the future is polled once in each of those polls (with that
\* poll's waker), and the first k of them return Pending.
C11_AwaitTakesKPlusOne ==
  \A j \in 1..Len(awaits) :
    LET a == awaits[j]
        k == closure.futs[a.fut]
        n == Len(a.polls)
    IN /\ a.fut = j /\ n \in 1..(k + 1)
       /\ a.done <=> (n = k + 1 /\ fpc > j)
       /\ a.done => (a.value = FutValue(j) /\ a.to - a.from + 1 = k + 1)
       /\ \A i \in 1..n : a.polls[i] = a.from + i - 1
       /\ \A i \in 1..n :
            (i <= k /\ a.polls[i] <= Len(returns)) =>
               returns[a.polls[i]] = RetPending
       /\ \A i \in 1..k :
            (a.from + i - 1 <= Len(returns)) => i <= n

\* A future that was Pending twice was awaited after a ready one: its
\* async_suspend was entered in the first poll and returned in the third.
C11_Witness ==
  /\ closure.futs = <<0, 2>> /\ Len(awaits) = 2 /\ awaits[2].done
  /\ awaits[2].from = 1 /\ awaits[2].to = 3 /\ awaits[2].polls = <<1, 2, 3>>
  /\ awaits[2].value = FutValue(2)
  /\ returns = <<RetPending, RetPending>>

\* C12: with a preserved slot, whenever the user closure runs after a
\* store, the slot of the thread it runs on holds what it stored, so every
\* load after an await returns the value stored before that await, on
\* whatever threads the polls ran and whatever those threads' slots held.
C12_SlotFollowsClosure ==
  /\ \A i \in 1..Len(loads) : loads[i].loaded = loads[i].stored
  /\ (IsWormhole /\ tls_count = 1 /\ side = "coro" /\ cpc = "closure"
        /\ fpc <= NFuts + 1 /\ wrote # NoStore) => slot[thread] = wrote.val

\* The closure stored on one thread, was suspended twice and loaded its
\* value on the other thread.
C12_Witness ==
  /\ Len(loads) >= 1 /\ loads[1].suspensions = 2
  /\ loads[1].from # loads[1].on
  /\ loads[1].loaded = StoreValue(1)

\* C13: whatever the threads do, the pool never holds more stacks than
\* its capacity, and a recycle that finds the pool full unmaps the stack it
\* brought and leaves the queue as it was.
C13_PoolBounded ==
  /\ [](Len(pool) <= capacity)
  /\ [][\A t \in PoolThreads :
          (ppc[t] = "recycle" /\ ppc'[t] = "idle" /\ Len(pool) = capacity) =>
            (pool' = pool /\ stacks'[hand[t]] = "unmapped")]_vars

\* A recycle found the pool full while the other thread was inside
\* with_tls, and its stack was unmapped.
C13_Witness ==
  /\ Len(pool) = capacity /\ recycled.stack # 0 /\ ~recycled.ok
  /\ stacks[recycled.stack] = "unmapped"
  /\ \E t \in PoolThreads : ppc[t] = "with_tls"

\* C14 as stated: whenever a recycle whose push the queue accepted is
\* followed by the next with_tls, that with_tls pops the recycled stack and
\* builds its wormhole on it.
C14_NextAcquireSameStack ==
  (acquired.after.ok /\ ppc[acquired.thread] = "idle") =>
    /\ acquired.got = acquired.after.stack
    /\ acquired.built = acquired.after.stack

\* C14 amended: a with_tls that follows an accepted recycle maps no new
\* stack and builds its wormhole on the stack it popped; that stack is the
\* recycled one when the pool was empty before the recycle (the queue hands
\* out its oldest stack first).
C14_NextAcquireReuses ==
  acquired.after.ok =>
    /\ acquired.got # 0
    /\ ppc[acquired.thread] = "idle" => acquired.built = acquired.got
    /\ acquired.after.was_empty => acquired.got = acquired.after.stack

\* A stack recycled into the empty pool was handed out again by the next
\* with_tls, while another stack was in use.
C14_Witness ==
  /\ acquired.after.ok /\ acquired.after.was_empty
  /\ ppc[acquired.thread] = "idle"
  /\ acquired.built = acquired.after.stack
  /\ \E s \in StackIds : s # acquired.built /\ stacks[s] = "wormhole"

\* The stacks that exist: the one the caller holds and the one in the slot.
StacksAlive == {s \in {owned, CURRENT_STACK} : s # NoStack}
\* The deallocation base of a stack: what deallocation() returns where it
\* returns, else (unix, and PreAllocatedStack, which has guard_top in its
\* place) the base of the range Drop gives back to the OS.
DeallocationBase(s) ==
  IF s.type \in FixedTypes /\ ~deallocation(s).panics THEN deallocation(s).ptr
  ELSE DropBase(s)

\* C15: every stack of every stack type, after new and after any grow
\* calls, has deallocation <= top < bottom with bottom - top a positive
\* multiple of the page size; on the unix stacks without growth
\* deallocation equals top.
C15_StackLayout ==
  \A s \in StacksAlive :
    /\ DeallocationBase(s) <= top(s)
    /\ top(s) < bottom(s)
    /\ (bottom(s) - top(s)) % PageSize = 0
    /\ (s.os = "unix" /\ s.type \in FixedTypes) => DeallocationBase(s) = top(s)

\* C16: a PreAllocatedStack created with a page-multiple size keeps, after
\* new and after any grow calls, a guard page beyond the usable region:
\* guard_top < top.
C16_GuardBeyondUsable ==
  \A s \in StacksAlive :
    (s.type = PreAllocated /\ asked.total_size > 0
       /\ asked.total_size % PageSize = 0)
    => guard_top(s) < top(s)

\* The x of a total_size of 4 KB * 2^x.
Exp(total_size) == CHOOSE x \in 0..MaxExp : total_size = PageSize * Pow2(x)

\* C17: a PreAllocatedStack of size 4 KB * 2^x starts with one usable page;
\* as long as the OS lets mprotect succeed, the first x grow calls succeed,
\* the k-th leaving 4 KB * 2^k usable, and every later grow call fails.
C17_GrowsExactlyX ==
  (/\ asked.ok /\ asked.type = PreAllocated
   /\ asked.total_size \in DocumentedSizes
   /\ Family(platform) = "unix"
   /\ \A i \in 1..Len(grown) : grown[i].os_ok)
  => /\ \A s \in StacksAlive : grown = <<>> => bottom(s) - top(s) = PageSize
     /\ \A i \in 1..Len(grown) :
          IF i <= Exp(asked.total_size)
          THEN grown[i].ok /\ grown[i].usable = PageSize * Pow2(i)
          ELSE ~grown[i].ok

\* C18: the unix signal handler returns true exactly when the signal is the
\* platform's guard page signal, the faulting address lies in the guard
\* range of the stack in the slot and grow succeeds; otherwise it returns
\* false and leaves the stack as it was.
C18_HandledIff ==
  (handled # NoSignal /\ Family(platform) = "unix")
  => LET s == handled.before
         handles ==
           /\ handled.signum = expected_guard_page_signal(platform)
           /\ s # NoStack
           /\ stack_pointer_inside_guard(s, handled.addr)
           /\ grow(s, handled.os_ok).ok
     IN IF handles
        THEN handled.ret = "true"
             /\ bottom(CURRENT_STACK) - top(CURRENT_STACK)
                  = 2 * (bottom(s) - top(s))
        ELSE handled.ret = "false" /\ CURRENT_STACK = s

\* C20: on Windows top() of every stack type lies exactly four pages above
\* the deallocation base.
C20_WindowsTopFourPages ==
  \A s \in StacksAlive :
    s.os = "windows" => top(s) - DeallocationBase(s) = 4 * PageSize

\* C19: resume puts the generator's stack into the thread local slot before
\* it switches into the coroutine, so whenever coroutine code faults on a
\* guard page the signal handler finds a stack in the slot, never an empty
\* slot.
C19_HandlerFindsStack ==
  handled # NoSignal => (handled.before # NoStack /\ handled.ret # "panic")

\* C21: new returns Err whenever one of its system calls failed and never
\* an Ok stack then; with_tls on an empty pool whose OneMbStack::new fails
\* returns without a wormhole and leaves the pool and every stack as they
\* were.
C21_NewErrOnOsFailure ==
  /\ [](asked.failed => ~asked.ok)
  /\ []((asked.failed /\ PoolUnused) => owned = NoStack)
  /\ [][\A t \in PoolThreads :
          (ppc[t] = "with_tls" /\ ppc'[t] = "idle" /\ hand[t] = 0
             /\ asked'.failed)
          => (pool' = pool /\ stacks' = stacks /\ acquired' = acquired)]_vars

\* with_tls has returned the error of a failed OneMbStack::new.
C21_Witness ==
  /\ asked.failed /\ asked.type = OneMb /\ ~PoolUnused
  /\ \A t \in PoolThreads : ppc[t] = "idle"

\* C22: a poll switches into the coroutine exactly once, through its one
\* resume, when the generator was not finished at the call, and not at all
\* when it was; this holds while the poll runs and after it returned Ready
\* or Pending.
C22_OneResumePerPoll ==
  call.op = "poll"
  => /\ switch_ins - call.sw = (IF call.fin THEN 0 ELSE 1)
     /\ Cardinality({i \in 1..Len(in_sent) : in_sent[i] = call.arg})
          = (IF call.fin THEN 0 ELSE 1)

\* A poll of a wormhole that had been suspended before has returned Pending
\* again, and a later poll came after completion.
C22_Witness ==
  /\ PollDone /\ call.fin
  /\ \E i \in 1..Len(returns) : returns[i].tag = "Pending"
  /\ \E i \in 1..Len(returns) : returns[i].tag = "Ready"

\* C23: every poll of an awaited future uses the waker of the poll of the
\* wormhole that is running, which is the waker most recently delivered to
\* the coroutine; wakers are never used out of order.
C23_InnerPollUsesLatestWaker ==
  /\ [][fpolls' # fpolls
          => /\ call.op = "poll"
             /\ fpolls' = Append(fpolls, call.arg)
             /\ call.arg = Last(in_sent) /\ call.arg = Last(in_recv)]_vars
  /\ [](\A i, j \in 1..Len(fpolls) : i <= j => fpolls[i] <= fpolls[j])

\* An awaited future was polled under two different wakers.
C23_Witness ==
  /\ Len(fpolls) >= 2 /\ fpolls[1] # Last(fpolls)
  /\ PollDone

\* C24: once the coroutine has sent Finished or Panic, control never
\* enters it again: no operation switches in, suspend_ never returns and
\* nothing undefined happens.
C24_NoSwitchInAfterFinal ==
  /\ [](cpc = "final" => (side = "host" /\ ~ub))
  /\ [][cpc = "final"
          => (cpc' = "final" /\ switch_ins' = switch_ins /\ in_sent' = in_sent)]_vars

\* A generator whose closure panicked was resumed again and then consumed
\* by stack().
C24_Witness ==
  /\ cpc = "final" /\ Last(out_sent).tag = "Panic"
  /\ hpc = "dropped" /\ call.op = "stack" /\ call.fin
  /\ ops >= 3

\* Switches out of the coroutine so far: the first swap of
\* generator_wrapper and every suspend_.
SwitchOuts == Len(out_sent) + (IF cpc \in {"none", "init"} THEN 0 ELSE 1)

\* C25: control is with one side at a time: while the coroutine runs the
\* host is inside resume or drop, every switch-in is made by the host and
\* every switch-out by the coroutine, and the two alternate, whichever
\* threads the resumes come from.
C25_SidesAlternate ==
  /\ [](side = "host" => switch_ins = SwitchOuts)
  /\ [](side # "host" => (switch_ins = SwitchOuts + 1
                           /\ hpc \in {"new", "resume", "drop"}))
  /\ [](side \in {"host", "coro"} => saved[side] = 0)
  /\ [][switch_ins' # switch_ins => (side = "host" /\ side' = "coro")]_vars
  /\ [][SwitchOuts' # SwitchOuts => (side = "coro" /\ side' = "host")]_vars

\* The coroutine runs after its second switch-in, which came from another
\* thread than the first.
C25_Witness ==
  /\ side = "coro" /\ switch_ins >= 2
  /\ Len(loads) >= 1 /\ loads[1].from # loads[1].on

\* C26: every switch jumps to the stack pointer the other side saved at
\* the switch before: between host calls the generator holds the pointer
\* of the coroutine's last switch-out, the running coroutine's yielder
\* holds the pointer of the last switch-in (the unwinding one included),
\* each switch saves at a fresh pointer and consumes the one it jumps to.
C26_SavedPointerUsedOnce ==
  /\ [](~ub)
  /\ []((hpc = "idle" /\ ~finished) => stack_ptr = saved["coro"])
  /\ []((side = "coro" /\ cpc \in {"parked", "suspended"})
          => reg_sp = saved["host"])
  /\ []((side = "coro" /\ cpc \notin {"init", "parked", "suspended"})
          => yielder_sp = saved["host"])
  /\ [][(side' # side /\ side' # "aborted")
          => /\ saved'[side'] = 0
             /\ saved'[side] \notin {0, saved["host"], saved["coro"]}
             /\ saved'[side] >= next_sp]_vars

\* A suspended generator was dropped: the coroutine unwound and switched
\* out to the pointer of the drop's switch-in.
C26_Witness ==
  /\ hpc = "dropped" /\ call.op \in {"drop", "stack"} /\ ~call.fin
  /\ switch_ins >= 3 /\ Len(out_recv) >= 2
  /\ Last(out_recv).tag = "Panic"

\* stack() was called on a generator that was resumed and has not ended.
StackCalledInFlight == call.op = "stack" /\ ~call.fin /\ started

\* C27: stack() on a started, unfinished generator first unwinds the
\* coroutine: while the unwinding runs the stack is with nobody, the call
\* always comes back, and when the stack is handed over the coroutine has
\* sent its last output and left no object on the stack; the stack is
\* never released by stack().
C27_StackUnwindsFirst ==
  /\ []((StackCalledInFlight /\ hpc = "drop") => stack = "taken")
  /\ []((StackCalledInFlight /\ hpc = "dropped")
          => (stack = "returned" /\ cpc = "final" /\ live = {} /\ side = "host"))
  /\ [](stack = "returned" => (call.op = "stack" /\ hpc = "dropped"))
  /\ [](call.op = "stack" => stack # "freed")
  /\ ((StackCalledInFlight /\ hpc = "drop")
        ~> (StackCalledInFlight /\ hpc = "dropped" /\ stack = "returned"))

\* stack() returned the stack of a wormhole that was waiting on a future.
C27_Witness ==
  /\ StackCalledInFlight /\ hpc = "dropped" /\ stack = "returned"
  /\ IsWormhole /\ Len(awaits) >= 1
  /\ Last(out_recv).tag = "Panic"

\* The stacks a thread holds inside with_tls or recycle.
InHand == {hand[t] : t \in PoolThreads} \ {0}
\* The stacks waiting in the queue.
InPool == {pool[i] : i \in 1..Len(pool)}

\* C28: whatever the threads do, a stack is in one place: in the queue
\* once, in the hand of one thread, or under one wormhole; a wormhole is
\* only ever built on a stack that no wormhole runs on and that is neither
\* in the queue nor in another thread's hand.
C28_OneAcquirerPerStack ==
  /\ [](\A t1, t2 \in PoolThreads :
          (hand[t1] # 0 /\ hand[t1] = hand[t2]) => t1 = t2)
  /\ [](\A i, j \in 1..Len(pool) : pool[i] = pool[j] => i = j)
  /\ [](\A s \in StackIds :
          /\ (s \in InPool) = (stacks[s] = "pooled")
          /\ (s \in InHand) = (stacks[s] = "hand"))
  /\ [][\A s \in StackIds :
          (stacks'[s] = "wormhole" /\ stacks[s] # "wormhole")
            => /\ stacks[s] \in {"hand", "unmapped"}
               /\ s \notin InPool' /\ s \notin InHand'
               /\ stacks[s] = "hand" =>
                    \E t \in PoolThreads : ppc[t] = "with_tls" /\ hand[t] = s]_vars

\* Two threads are inside with_tls at once, each with a stack it popped,
\* after both stacks went through recycle.
C28_Witness ==
  \E t1, t2 \in PoolThreads :
    /\ t1 # t2
    /\ ppc[t1] = "with_tls" /\ ppc[t2] = "with_tls"
    /\ hand[t1] # 0 /\ hand[t2] # 0

\* A stack of a documented size was handed to give_to_signal and the
\* program is about to store inside the size it asked for.
StorePending ==
  /\ access.state = "planned" /\ owned = NoStack
  /\ asked.ok /\ asked.total_size \in DocumentedSizes

\* C29: a store into the requested size of a stack given to the signal
\* handler succeeds after finitely many faults, each of them handled by a
\* doubling of the usable region that leaves the stack in the slot, unless
\* the OS refuses the handler's mprotect.
C29_StoreEventuallySucceeds ==
  /\ StorePending ~> (access.state = "done" \/ access.refused)
  /\ []((asked.total_size \in DocumentedSizes /\ access.state = "killed")
          => access.refused)
  /\ []((asked.total_size \in DocumentedSizes /\ access.state \in {"retry", "done"})
          => (CURRENT_STACK # NoStack /\ access.faults <= Exp(asked.total_size)))

\* C30: the range a stack gives back when it is dropped is the range new
\* reserved for it, whatever grow calls came between, and the reservation
\* is given back once, by the drop of the stack.
C30_DropReleasesReservation ==
  /\ [](\A s \in StacksAlive : DropRegions(s) = reserved /\ Cardinality(reserved) = 1)
  /\ [][(owned # NoStack /\ owned' = NoStack /\ CURRENT_STACK' = CURRENT_STACK)
          => (reserved' = {} /\ reserved = DropRegions(owned))]_vars
  /\ [][(reserved # {} /\ reserved' = {})
          => (owned # NoStack /\ owned' = NoStack)]_vars
  /\ [][(owned' # owned /\ owned # NoStack /\ owned' # NoStack)
          => (owned'.ptr = owned.ptr /\ owned'.bottom = owned.bottom
              /\ reserved' = reserved)]_vars

\* A PreAllocatedStack was grown twice, went through the signal slot and
\* was dropped.
C30_Witness ==
  /\ owned = NoStack /\ CURRENT_STACK = NoStack /\ reserved = {}
  /\ asked.ok /\ asked.type = PreAllocated
  /\ Len(grown) >= 2 /\ grown[1].ok /\ grown[2].ok

\* The slots of the image whose content the switch changed.
Overwritten ==
  {a \in DOMAIN machine.mem : machine.mem[a] # machine.image[a]}

\* C31: on every platform the link overwrites the placeholder slot of the
\* image init wrote and nothing else; the first switch then pops the frame
\* pointer (the address of that slot) and the address of the trampoline's
\* call, and the call enters generator_wrapper from its slot with arg and
\* the caller's stack pointer, the one written into the placeholder slot.
C31_LinkHitsPlaceholder ==
  /\ machine.pc \in {"linked", "switched", "trampoline", "entered", "fault"}
       => /\ Cardinality(Overwritten) = 1
          /\ \A a \in Overwritten :
               /\ machine.image[a] = Placeholder
               /\ machine.mem[a] = Num(machine.host_sp)
               /\ a = bottom(machine.stack) - LinkOffset(machine.arch)
  /\ machine.pc \in {"trampoline", "entered"}
       => /\ machine.regs["fp"].tag = "num"
          /\ Overwritten = {machine.regs["fp"].n}
          /\ machine.regs["ip"].fn = Trampoline(machine.arch)
  /\ machine.pc # "fault"
  /\ machine.pc = "entered"
       => /\ machine.called = Code("generator_wrapper", 0)
          /\ machine.regs["ip"] = Code(Trampoline(machine.arch), CallOffset(machine.arch))
          /\ machine.arg1 = Num(machine.arg)
          /\ machine.arg2 = Num(machine.host_sp)
          /\ machine.mem[machine.regs["fp"].n] = machine.arg2

\* generator_wrapper was entered on Windows, after the pops that load the
\* thread information block.
C31_Witness ==
  /\ machine.pc = "entered" /\ machine.arch = "windows_x64"
  /\ machine.regs["base"] = Num(bottom(machine.stack))

\* Code of the closure is executing on the thread: its body, or the
\* destructors of its locals during an unwind.
ClosureCodeRuns ==
  /\ IsWormhole /\ side = "coro"
  /\ \/ cpc = "closure" /\ fpc <= NFuts + 1
     \/ cpc = "unwinding" /\ live # {}

\* C32: with a preserved slot, whenever code of the closure executes after
\* a store of the closure, destructors of the drop-unwind included, the slot
\* of the executing thread holds what the closure stored last.
C32_SlotHeldWheneverClosureRuns ==
  (ClosureCodeRuns /\ tls_count = 1 /\ wrote # NoStore)
    => slot[thread] = wrote.val

\* C33: on every constructed generator finished() implies started(); a
\* resume or poll that found the generator finished, and so returns None
\* without switching in, comes after a resume that did run the closure.
C33_FinishedImpliesStarted ==
  /\ (constructed /\ finished) => started
  /\ (constructed /\ call.op \in {"resume", "poll"} /\ call.fin)
       => started /\ Len(in_sent) >= 1 /\ steps >= 1

\* A resume on a finished generator returned None.
C33_Witness ==
  /\ hpc = "idle" /\ finished /\ started
  /\ call.op = "resume" /\ call.fin /\ ret = RetNone

\* C34: once the generator is dropped, whatever its life was, the closure
\* given to Generator::new (with what it captured) was consumed or dropped
\* exactly once, and no destructor ran twice.
C34_ClosureDroppedExactlyOnce ==
  /\ \A o \in Objects : drops[o] <= 1
  /\ hpc = "dropped" => (drops[Obj("f", 0)] = 1 /\ Obj("f", 0) \notin live)

\* C35: of two wormholes preserving one key, polled in any order on any
\* threads, each closure loads what it stored last (the value its wormhole
\* was constructed with before its first store) and never a value the
\* other closure stored.
C35_ClosuresIsolated ==
  pair.read # NoRead =>
    /\ pair.read.loaded = IF pair.read.wrote # 0 THEN pair.read.wrote
                          ELSE pair.read.cons
    /\ pair.read.loaded \notin WrittenBy(3 - pair.read.by)

\* C36: what the closure loads from the preserved slot during the first
\* poll of its wormhole, before its first store, is the value the slot of
\* the constructing thread held in new_with_tls.
C36_FirstLoadSeesConstruction ==
  (pair.read # NoRead /\ pair.read.poll = 1 /\ pair.read.wrote = 0)
    => pair.read.loaded = pair.read.cons

\* A grow was called in this step, by the caller or by the signal handler,
\* and returned an error.
GrowFailed ==
  /\ Len(grown') = Len(grown) + 1
  /\ ~grown'[Len(grown')].ok

\* C37: a grow that returns an error, because the maximum is reached or
\* because mprotect failed, leaves guard_top, top and bottom of the stack
\* as they were, wherever the stack is held.
C37_FailedGrowChangesNothing ==
  [][GrowFailed => (owned' = owned /\ CURRENT_STACK' = CURRENT_STACK)]_vars

\* The caller's stack grew once, then a grow failed in mprotect, and a
\* third one at the maximum.
C37_Witness ==
  /\ Len(grown) = 3 /\ owned # NoStack
  /\ grown[1].ok /\ ~grown[2].ok /\ ~grown[2].os_ok
  /\ ~grown[3].ok /\ grown[3].os_ok
  /\ grown[3].usable = grown[1].usable
  /\ bottom(owned) - top(owned) = grown[1].usable

\* How many owners stack s has: queue positions, threads inside with_tls or
\* recycle that hold it, and the wormhole built on it.
Holders(s) ==
  Cardinality({i \in 1..Len(pool) : pool[i] = s})
    + Cardinality({t \in PoolThreads : hand[t] = s})
    + (IF stacks[s] = "wormhole" THEN 1 ELSE 0)

\* Stack s is given back to the OS in this step.
Released(s) == stacks[s] # "unmapped" /\ stacks'[s] = "unmapped"

\* C38: under every interleaving of with_tls and recycle a mapped stack has
\* exactly one owner (a wormhole, the queue, or the call that is moving it
\* between the two) and a released one has none; a stack is released only
\* by its single owner, never while it is in the queue or while its
\* wormhole lives on, and once released nothing is left to release it
\* again.
C38_OneOwnerOneRelease ==
  /\ [](\A s \in StackIds :
          Holders(s) = IF stacks[s] = "unmapped" THEN 0 ELSE 1)
  /\ [][\A s \in StackIds :
          Released(s) =>
            /\ Holders(s) = 1 /\ s \notin InPool
            /\ \/ stacks[s] = "wormhole"
               \/ \E t \in PoolThreads :
                    /\ ppc[t] = "recycle" /\ hand[t] = s
                    /\ Len(pool) = capacity
            /\ s \notin InPool' /\ s \notin InHand']_vars

\* A full queue made recycle release a stack while one stack waits in the
\* queue and a wormhole runs on a third.
C38_Witness ==
  /\ recycled.stack # 0 /\ ~recycled.ok
  /\ stacks[recycled.stack] = "unmapped"
  /\ \E s1, s2 \in StackIds : stacks[s1] = "pooled" /\ stacks[s2] = "wormhole"

\* C39: a new that returned an error leaves no reservation behind, also
\* when the step that failed came after the address range was reserved.
C39_FailedNewLeavesNoMapping ==
  (asked # NoAsk /\ ~asked.ok) => reserved = {}

====
